---- MODULE Spec2Model ----
(***************************************************************************)
(* HERON admin: capability issuance and entitlement checks                 *)
(* (heron_wsgi/admin_lib/heron_policy.py) and CAS ticket validation        *)
(* (heron_wsgi/cas_auth.py).                                               *)
(*                                                                         *)
(* The REDCap tables, the directory, the training service, the clock and   *)
(* the CAS server are external: what a call reads from them is an input of *)
(* the action, and the record `last` keeps what the call read and what it  *)
(* answered.  The program's own state is its configuration and the         *)
(* capability objects of the requests in flight.                           *)
(***************************************************************************)
EXTENDS Integers, Sequences, FiniteSets, TLC

(* ----------------------------- bounds --------------------------------- *)
\* days of the calendar the dates are drawn from
MaxDay == 2
\* requests whose capabilities are alive at once
MaxReq == 1
\* rows of the survey response table
MaxSaaRows == 1

Days == 1..MaxDay
ReqIds == 1..MaxReq

(* ----------------------------- strings -------------------------------- *)
(* A Python string is the sequence of its symbols, compared as Python      *)
(* compares strings: symbol by symbol, a proper prefix first.  A date in   *)
(* ISO format is one symbol (the day); datetime.isoformat() is that symbol *)
(* followed by the 'T...' time part.                                       *)
EmptyStr == <<>>
TimePart == 1

RECURSIVE StrLeq(_, _)
StrLeq(a, b) ==
    IF Len(a) = 0 THEN TRUE
    ELSE IF Len(b) = 0 THEN FALSE
    ELSE IF a[1] # b[1] THEN a[1] < b[1]
    ELSE StrLeq(Tail(a), Tail(b))

\* Python's None, and a string value
PyNone == [isNone |-> TRUE, s |-> EmptyStr]
PyStr(s) == [isNone |-> FALSE, s |-> s]

\* Python 2's a <= b for None and strings: None sorts before every string
PyLeq(a, b) ==
    IF a.isNone THEN TRUE
    ELSE IF b.isNone THEN FALSE
    ELSE StrLeq(a.s, b.s)

\* date.isoformat() and datetime.isoformat() of day d
IsoDate(d) == <<d>>
IsoDateTime(d) == <<d, TimePart>>

(* ----------------------------- identities ----------------------------- *)
\* user ids (badge.cn), as strings of one symbol
SomeOne == <<115>>
BillStudent == <<98>>
Users == {SomeOne, BillStudent}

\* badge.mail of the badge with this cn
MailOf(cn) == cn \o <<64>>

Badge(cn) == [cn |-> cn, mail |-> MailOf(cn)]

(* ----------------------------- configuration -------------------------- *)
\* HeronRecords.institutions
institutions == <<"kuh", "kupi", "kumc">>

\* DecisionRecords.YES, DecisionRecords.NO
YES == <<49>>
NO == <<50>>

\* oversight_rc.project_id and saa_rc.survey_id of the test settings, and
\* another project and survey living in the same REDCap database
OversightProjectId == 34
OtherProjectId == OversightProjectId + 1
SaaSurveyId == 11
OtherSurveyId == SaaSurveyId + 1

\* PERM_USER, PERM_FACULTY: a permission is a string object; `name` is its
\* text and `obj` the identity of the object
PERM_USER == [name |-> "heron_policy.user", obj |-> 1]
PERM_FACULTY == [name |-> "heron_policy.faculty", obj |-> 2]

VARIABLES
    executives,   \* HeronRecords._executives: the configured allow-list
    timesrc,      \* HeronRecords._t: "date" (today() is a date) or
                  \* "datetime" (today() is datetime.datetime.today())
    caps,         \* per request: the capability issue() put in req.user
    last,         \* the last completed call: its inputs and its outcome
    found,        \* the last MedCenter.affiliate call: the name, what the
                  \* directory search returned, the outcome
    cookie,       \* the auth_tkt cookie the browser holds
    now,          \* the clock of the web server, in seconds
    resp,         \* the response to the last web request, with the
                  \* request and the answer of the CAS service
    submitted,    \* the tickets this application has sent to CAS so far
    rejected,     \* the tickets whose validation failed in this application
    spent,        \* the tickets the CAS service has seen in a validation
    guard,        \* the Validator: whether it was constructed, its secret
    cache,        \* Cache._cache: per key, the entry (expire, v) if any
    tnow,         \* the clock of the cache
    lastq,        \* the last _query call: its inputs and its outcome
    wk,           \* per worker thread: its position in _query and its locals
    hsr,          \* the PII DB: per table, whether it exists and its rows
    lastput       \* the last put or putDoc call: its inputs and its outcome

policyVars == <<executives, timesrc, caps, last, found>>

webVars == <<cookie, now, resp, submitted, rejected, spent, guard>>

cacheVars == <<cache, tnow, lastq, wk>>

trainVars == <<hsr, lastput>>

vars == <<policyVars, webVars, cacheVars, trainVars>>

(* ----------------------------- redcap_data ---------------------------- *)
(* The entity/attribute/value table of REDCap: a set of rows               *)
(* [project_id, record, field_name, value].  The fields of the oversight   *)
(* data dictionary: one approve_<org> field per institution, the           *)
(* investigator in user_id, the candidates in user_id_<n>.                 *)
ApproveField(org) ==
    CASE org = "kuh" -> "approve_kuh"
      [] org = "kupi" -> "approve_kupi"
      [] org = "kumc" -> "approve_kumc"

CandidateFields == {"user_id_1", "user_id_2"}

\* field_name LIKE 'approve_%' and field_name LIKE 'user_id_%' over the
\* field names of the data dictionary ('_' matches one character, '%' any
\* run of them: 'user_id' itself is too short to match 'user_id_%')
LikeApprove(field_name) ==
    field_name \in {ApproveField(institutions[i]) : i \in 1..Len(institutions)}

LikeUserId(field_name) == field_name \in CandidateFields

Row(pid, rec, f, v) ==
    [project_id |-> pid, record |-> rec, field_name |-> f, value |-> v]

\* the rows the decision subquery groups: approve_% fields of the project
ApproveRows(rd, pid) ==
    {row \in rd : LikeApprove(row.field_name) /\ row.project_id = pid}

\* a majority instead of unanimity (a variant the code does not implement)
HavingMajority(n) == 2 * n > Len(institutions)

\* HAVING count(*) = len(HeronRecords.institutions)
HavingCount(n) == n = Len(institutions)

\* committee decisions: GROUP BY project_id, record, value HAVING count(*)
sponsor_decision(rd, pid) ==
    {[project_id |-> row.project_id, record |-> row.record,
      decision |-> row.value] : row \in
        {g \in ApproveRows(rd, pid) :
            HavingCount(Cardinality(
                {x \in ApproveRows(rd, pid) :
                    /\ x.project_id = g.project_id
                    /\ x.record = g.record
                    /\ x.value = g.value}))}}

sponsor_candidate(rd) ==
    {[project_id |-> row.project_id, record |-> row.record,
      userid |-> row.value] : row \in
        {x \in rd : LikeUserId(x.field_name)}}

sponsor_dt_exp(rd) ==
    {[project_id |-> row.project_id, record |-> row.record,
      dt_exp |-> row.value] : row \in
        {x \in rd : x.field_name = "date_of_expiration"}}

\* decision JOIN candidate LEFT OUTER JOIN dt_exp, on record and project_id
sponsor_cdwho(rd, pid) ==
    LET joined(cd, who) ==
            {e \in sponsor_dt_exp(rd) :
                e.record = cd.record /\ e.project_id = cd.project_id}
        ans(cd, who, exp) ==
            [record |-> cd.record, decision |-> cd.decision,
             candidate |-> who.userid, dt_exp |-> exp]
    IN  UNION {
            IF joined(p[1], p[2]) = {}
            THEN {ans(p[1], p[2], PyNone)}
            ELSE {ans(p[1], p[2], PyStr(e.dt_exp)) : e \in joined(p[1], p[2])}
          : p \in {q \in sponsor_decision(rd, pid) \X sponsor_candidate(rd) :
                    /\ q[2].record = q[1].record
                    /\ q[2].project_id = q[1].project_id}}

\* self._t.today().isoformat(), on day `day`
today_isoformat(src, day) ==
    IF src = "date" THEN IsoDate(day) ELSE IsoDateTime(day)

\* ans.dt_exp <= '' or today().isoformat() <= ans.dt_exp
NotExpired(dt_exp, todayIso) ==
    \/ PyLeq(dt_exp, PyStr(EmptyStr))
    \/ PyLeq(PyStr(todayIso), dt_exp)

\* any unanimous decision taken for an approval, a rejection too (a variant
\* the code does not implement)
sponsored_any_decision(rd, pid, uid, todayIso) ==
    \E ans \in {a \in sponsor_cdwho(rd, pid) : a.candidate = uid} :
        NotExpired(ans.dt_exp, todayIso)

\* HeronRecords._sponsored: TRUE, or FALSE for raise NotSponsored
sponsored(rd, pid, uid, todayIso) ==
    \E ans \in {a \in sponsor_cdwho(rd, pid) :
                    a.candidate = uid /\ a.decision = YES} :
        NotExpired(ans.dt_exp, todayIso)

(* ----------------------------- survey tables -------------------------- *)
(* redcap_surveys_participants: rows [participant_id, survey_id,           *)
(* participant_email]; redcap_surveys_response: rows [participant_id].     *)
\* the survey id left out of the WHERE clause (a variant the code does not
\* implement)
saa_query_any_survey(saa, mail, survey_id) ==
    {q \in saa.response \X saa.participants :
        /\ q[1].participant_id = q[2].participant_id
        /\ q[2].participant_email = mail}

\* _saa_query: r JOIN p ON r.participant_id = p.participant_id
\*             WHERE p.participant_email = mail AND p.survey_id = survey_id
saa_query(saa, mail, survey_id) ==
    {q \in saa.response \X saa.participants :
        /\ q[1].participant_id = q[2].participant_id
        /\ q[2].participant_email = mail
        /\ q[2].survey_id = survey_id}

\* HeronRecords._check_saa_signed: FALSE for raise NoAgreement
check_saa_signed(saa, mail) == saa_query(saa, mail, SaaSurveyId) # {}

(* ----------------------------- capabilities --------------------------- *)
(* A capability object: its class (kind), its badge, the badge of the      *)
(* request its Record closes over, and Affiliate._sponsor (memo: FALSE for *)
(* None, TRUE for True).                                                   *)
NoBadge == [cn |-> EmptyStr, mail |-> EmptyStr]
NoCap == [kind |-> "None", badge |-> NoBadge, req_badge |-> NoBadge,
          memo |-> FALSE]

Kinds == {"Affiliate", "Faculty", "Executive"}

\* what mc.training(req.idvault_entry) can answer: a date string, or
\* raise KeyError or IOError
NoAnswer == [status |-> "none", when |-> EmptyStr]
TrainingAnswers ==
    {[status |-> "KeyError", when |-> EmptyStr],
     [status |-> "IOError", when |-> EmptyStr]}
    \cup {[status |-> "ok", when |-> IsoDate(d)] : d \in Days}

NoSaa == [participants |-> {}, response |-> {}]

\* one step of a call, as the log keeps it: which check, the key it was
\* asked about, whether it queried the external records, how it ended
Step(step, key, queried, ok) ==
    [step |-> step, key |-> key, queried |-> queried, ok |-> ok]

\* Record.get_sponsor
get_sponsor(req_badge, rd, todayIso) ==
    sponsored(rd, OversightProjectId, req_badge.cn, todayIso)

\* Affiliate.sponsor: query once, keep a True answer in self._sponsor
affiliate_sponsor(cap, rd, todayIso) ==
    IF ~cap.memo
    THEN LET ans == get_sponsor(cap.req_badge, rd, todayIso)
         IN  [ok |-> ans, memo |-> ans, queried |-> TRUE]
    ELSE [ok |-> TRUE, memo |-> cap.memo, queried |-> FALSE]

\* Executive.sponsor, Faculty.sponsor: return self
self_sponsor(cap) == [ok |-> TRUE, memo |-> cap.memo, queried |-> FALSE]

\* every class asking the records (a variant the code does not implement)
sponsor_by_record(cap, rd, todayIso) == affiliate_sponsor(cap, rd, todayIso)

\* user.sponsor(), dispatched on the class of the capability
sponsor(cap, rd, todayIso) ==
    IF cap.kind \in {"Executive", "Faculty"}
    THEN self_sponsor(cap)
    ELSE affiliate_sponsor(cap, rd, todayIso)

\* Record.get_sig
get_sig(req_badge, saa) == check_saa_signed(saa, req_badge.mail)

\* when >= today().isoformat()
TrainingCurrent(when, todayIso) == StrLeq(todayIso, when)

\* Record.get_training: the date, or NoTraining with or without the date
get_training(tr, todayIso) ==
    IF tr.status = "KeyError"
    THEN [ok |-> FALSE, result |-> "NoTraining", when |-> PyNone]
    ELSE IF tr.status = "IOError"
    THEN [ok |-> FALSE, result |-> "NoTraining", when |-> PyNone]
    ELSE IF ~TrainingCurrent(tr.when, todayIso)
    THEN [ok |-> FALSE, result |-> "NoTraining", when |-> PyStr(tr.when)]
    ELSE [ok |-> TRUE, result |-> "date", when |-> PyStr(tr.when)]

\* I2B2Account(agent): assert(agent.badge is badge)
I2B2Account(r, cap) ==
    IF cap.badge = cap.req_badge
    THEN [result |-> "Access", agent |-> r]
    ELSE [result |-> "AssertionError", agent |-> 0]

\* what a call answers: its result, the date it carries, the agent of the
\* Access marker, the steps it took, and the capability's memo afterwards
Outcome(result, when, agent, log, memo) ==
    [result |-> result, when |-> when, agent |-> agent, log |-> log,
     memo |-> memo]

\* one check of repository_authz: how it ends, the exception it raises,
\* the memo it leaves, its entry in the log
sponsor_step(cap, rd, todayIso) ==
    LET s == sponsor(cap, rd, todayIso)
    IN  [ok |-> s.ok, exc |-> "NotSponsored", when |-> PyNone,
         memo |-> s.memo,
         entry |-> Step("sponsor", cap.req_badge.cn, s.queried, s.ok)]

agreement_step(cap, saa) ==
    LET g == get_sig(cap.req_badge, saa)
    IN  [ok |-> g, exc |-> "NoAgreement", when |-> PyNone,
         memo |-> cap.memo,
         entry |-> Step("agreement", cap.req_badge.mail, TRUE, g)]

training_step(cap, tr, todayIso) ==
    LET t == get_training(tr, todayIso)
    IN  [ok |-> t.ok, exc |-> t.result, when |-> t.when, memo |-> cap.memo,
         entry |-> Step("training", cap.req_badge.cn, TRUE, t.ok)]

check_step(name, cap, rd, saa, tr, todayIso) ==
    CASE name = "sponsor" -> sponsor_step(cap, rd, todayIso)
      [] name = "agreement" -> agreement_step(cap, saa)
      [] name = "training" -> training_step(cap, tr, todayIso)

\* the statements of Record.repository_authz before its return, in order:
\* user.sponsor(); self.get_sig(); self.get_training()
authz_no_training == <<"sponsor", "agreement">>
authz_agreement_first == <<"agreement", "sponsor", "training">>
authz_steps == <<"sponsor", "agreement", "training">>

\* run the statements in order; the first exception ends the call
RECURSIVE run_checks(_, _, _, _, _, _, _)
run_checks(steps, log, cap, rd, saa, tr, todayIso) ==
    IF steps = <<>>
    THEN [ok |-> TRUE, exc |-> "None", when |-> PyNone, log |-> log,
          memo |-> cap.memo]
    ELSE LET c == check_step(Head(steps), cap, rd, saa, tr, todayIso)
         IN  IF ~c.ok
             THEN [ok |-> FALSE, exc |-> c.exc, when |-> c.when,
                   log |-> Append(log, c.entry), memo |-> c.memo]
             ELSE run_checks(Tail(steps), Append(log, c.entry),
                             [cap EXCEPT !.memo = c.memo],
                             rd, saa, tr, todayIso)

\* Record.repository_authz(user)
repository_authz(r, cap, rd, saa, tr, todayIso) ==
    LET res == run_checks(authz_steps, <<>>, cap, rd, saa, tr, todayIso)
    IN  IF ~res.ok
        THEN Outcome(res.exc, res.when, 0, res.log, res.memo)
        ELSE LET a == I2B2Account(r, cap)
             IN  Outcome(a.result, PyNone, a.agent, res.log, res.memo)

(* ----------------------------- issue, audit --------------------------- *)
\* mc.faculty_badge(req.idvault_entry): the badge when the directory
\* classifies the identity as faculty, else raise NotFaculty (FALSE)
faculty_badge(dirFaculty) == dirFaculty

\* HeronRecords.issue: the class of the capability put in req.user
\* the directory consulted before the allow-list (a variant the code does
\* not implement)
issue_directory_first(execs, cn, dirFaculty) ==
    IF faculty_badge(dirFaculty) THEN "Faculty"
    ELSE IF cn \in execs THEN "Executive"
    ELSE "Affiliate"

issue(execs, cn, dirFaculty) ==
    IF cn \in execs THEN "Executive"
    ELSE IF faculty_badge(dirFaculty) THEN "Faculty"
    ELSE "Affiliate"

\* req.faculty set whenever the directory says faculty, executives too (a
\* variant the code does not implement)
issue_attrs_faculty_too(r, execs, cn, dirFaculty) ==
    [executive |-> IF cn \in execs THEN r ELSE 0,
     faculty |-> IF faculty_badge(dirFaculty) THEN r ELSE 0,
     user |-> r]

\* HeronRecords.issue: req.executive, req.faculty and req.user; r is the
\* capability constructed in this call
issue_attrs(r, execs, cn, dirFaculty) ==
    LET ex == IF cn \in execs THEN r ELSE 0
        fac == IF cn \notin execs /\ faculty_badge(dirFaculty) THEN r ELSE 0
        user == IF ex # 0 THEN ex ELSE IF fac # 0 THEN fac ELSE r
    IN  [executive |-> ex, faculty |-> fac, user |-> user]

\* isinstance(cap, cls) for cls Faculty or Affiliate; Executive and Faculty
\* are subclasses of Affiliate
isinstance(kind, cls) ==
    IF cls = "Faculty" THEN kind = "Faculty"
    ELSE kind \in {"Affiliate", "Faculty", "Executive"}

\* p is PERM_FACULTY: identity of the string object, not equality of text
IsPermFaculty(p) == p.obj = PERM_FACULTY.obj

\* mc.read_badge(cap.idcap): fails when the identity does not resolve
read_badge(resolves) == resolves

\* HeronRecords.audit(cap, p)
audit(kind, p, resolves) ==
    IF ~isinstance(kind, IF IsPermFaculty(p) THEN "Faculty" ELSE "Affiliate")
    THEN "TypeError"
    ELSE IF ~read_badge(resolves) THEN "IdentityNotFound"
    ELSE "ok"

\* the permission objects a caller can pass: the two module constants and
\* strings with the same text built elsewhere
Permissions ==
    {PERM_USER, PERM_FACULTY,
     [name |-> PERM_USER.name, obj |-> 3],
     [name |-> PERM_FACULTY.name, obj |-> 4]}

(* ------------------------ cas_auth: CapabilityStyle ------------------- *)
MaxPrincipals == 2

\* MockIssuer.permissions
TREASURE == [name |-> "treasure", obj |-> 5]

\* the principals of a request: the user id, a string; capabilities issued
\* by HeronRecords, whose identity resolves or no longer does; the sealed
\* box issued by MockIssuer
Uid == [type |-> "str", kind |-> "Other", resolves |-> FALSE]

Capability(kind, resolves) ==
    [type |-> "cap", kind |-> kind, resolves |-> resolves]

SealedBox == [type |-> "box", kind |-> "Other", resolves |-> FALSE]

PrincipalChoices ==
    {Uid, SealedBox, Capability("Affiliate", TRUE),
     Capability("Affiliate", FALSE), Capability("Faculty", TRUE)}

PrincipalLists ==
    UNION {[1..n -> PrincipalChoices] : n \in 0..MaxPrincipals}

Auditors == {"HeronRecords", "MockIssuer"}

AuditorLists ==
    {<<>>} \cup {<<a>> : a \in Auditors}
    \cup {pair \in Auditors \X Auditors : pair[1] # pair[2]}

\* auditor.permissions
auditor_permissions(auditor) ==
    IF auditor = "HeronRecords" THEN {PERM_USER, PERM_FACULTY} ELSE {TREASURE}

\* permission in auditor.permissions: equality of text
permission_in(permission, perms) ==
    \E q \in perms : q.name = permission.name

\* MockIssuer.audit: unseal the box; AttributeError becomes TypeError
MockIssuer_audit(cap) == IF cap.type = "box" THEN "ok" ELSE "TypeError"

\* auditor.audit(cap, permission): "ok" or the exception raised
auditor_audit(auditor, cap, permission) ==
    IF auditor = "HeronRecords"
    THEN audit(cap.kind, permission, cap.resolves)
    ELSE MockIssuer_audit(cap)

\* the inner loop of permits: "True" at the first audit that returns, on
\* to the next principal after TypeError, any other exception escapes;
\* "pass" when the principals are used up
RECURSIVE audit_each(_, _, _)
audit_each(auditor, principals, permission) ==
    IF principals = <<>> THEN "pass"
    ELSE LET res == auditor_audit(auditor, principals[1], permission)
         IN  IF res = "ok" THEN "True"
             ELSE IF res = "TypeError"
             THEN audit_each(auditor, Tail(principals), permission)
             ELSE res

\* CapabilityStyle.permits(context, principals, permission): "True",
\* "False", or the exception that escapes
RECURSIVE CapabilityStyle_permits(_, _, _)
CapabilityStyle_permits(auditors, principals, permission) ==
    IF auditors = <<>> THEN "False"
    ELSE LET res == IF permission_in(permission,
                                     auditor_permissions(auditors[1]))
                    THEN audit_each(auditors[1], principals, permission)
                    ELSE "pass"
         IN  IF res = "pass"
             THEN CapabilityStyle_permits(Tail(auditors), principals,
                                          permission)
             ELSE res

(* ----------------------------- inputs --------------------------------- *)
CandidateField(n) == IF n = 1 THEN "user_id_1" ELSE "user_id_2"

\* TestSetUp.add_oversight_request: the rows of one oversight request
\* (full_name and project_title are never read and left out)
add_oversight_request(pid, rec, user_id, candidates, reviews, exp) ==
    {Row(pid, rec, "user_id", user_id),
     Row(pid, rec, "date_of_expiration", exp)}
    \cup {Row(pid, rec, CandidateField(n), candidates[n]) :
            n \in 1..Len(candidates)}
    \cup {Row(pid, rec, ApproveField(rv[1]), rv[2]) : rv \in reviews}

Orgs == {institutions[i] : i \in 1..Len(institutions)}
AllYes == {<<org, YES>> : org \in Orgs}
AllNo == {<<org, NO>> : org \in Orgs}
TwoOfThree == {<<institutions[i], YES>> : i \in 1..2}

ExpiryValues == {EmptyStr} \cup {IsoDate(d) : d \in Days}

\* redcap_data as repository_authz sees it: empty, or one request approved
\* by all institutions for one candidate
AuthzDBs ==
    {{}} \cup
    {add_oversight_request(OversightProjectId, 1, BillStudent, <<u>>,
                           AllYes, e) : u \in Users, e \in ExpiryValues}

\* redcap_data as sponsor() sees it in the policy specification: also the
\* requests of the test fixture that two of three reviewed, or all rejected
SmallDBs ==
    AuthzDBs \cup
    {add_oversight_request(OversightProjectId, 1, BillStudent, <<u>>,
                           rv, EmptyStr) :
        u \in Users, rv \in {TwoOfThree, AllNo}}

\* the survey tables: a participant is created when the survey link is
\* made, the response when the survey is submitted
SaaParticipants ==
    {[participant_id |-> i, survey_id |-> sid, participant_email |-> MailOf(u)] :
        i \in 1..2, sid \in {SaaSurveyId, OtherSurveyId}, u \in Users}

SaaTables ==
    {[participants |-> ps, response |-> rs] :
        ps \in {x \in SUBSET SaaParticipants : Cardinality(x) <= MaxSaaRows},
        rs \in {x \in SUBSET {[participant_id |-> i] : i \in 1..2} :
                    Cardinality(x) <= MaxSaaRows}}

\* the survey tables as repository_authz sees them: empty, or one
\* submitted survey
AuthzSaa ==
    {NoSaa} \cup
    {[participants |-> {[participant_id |-> 1, survey_id |-> sid,
                         participant_email |-> MailOf(u)]},
      response |-> {[participant_id |-> 1]}] :
        sid \in {SaaSurveyId, OtherSurveyId}, u \in Users}

\* the objects audit() is handed besides capabilities: other principals of
\* the request (the user id string, another issuer's sealed box)
NoObj == 0

(* ------------------------- cas_auth: strings -------------------------- *)
MaxParams == 2
MaxClock == 601

LF == 10
Whitespace == {9, 10, 13, 32}
yes == <<121, 101, 115>>
no == <<110, 111>>
JohnSmith == <<106>>
MaryJones == <<109>>

\* str.split(sep): the pieces between the separators, at least one piece
RECURSIVE split(_, _)
split(s, sep) ==
    IF \E i \in 1..Len(s) : s[i] = sep
    THEN LET i == CHOOSE k \in 1..Len(s) :
                    s[k] = sep /\ \A j \in 1..(k - 1) : s[j] # sep
         IN  <<SubSeq(s, 1, i - 1)>> \o split(SubSeq(s, i + 1, Len(s)), sep)
    ELSE <<s>>

RECURSIVE lstrip(_)
lstrip(s) ==
    IF s # <<>> /\ s[1] \in Whitespace THEN lstrip(Tail(s)) ELSE s

RECURSIVE rstrip(_)
rstrip(s) ==
    IF s # <<>> /\ s[Len(s)] \in Whitespace
    THEN rstrip(SubSeq(s, 1, Len(s) - 1))
    ELSE s

\* str.strip()
strip(s) == lstrip(rstrip(s))

(* ------------------------- cas_auth: requests ------------------------- *)
\* a request URL: the path and the query string as name=value pairs in order
Param(name, value) == [name |-> name, value |-> value]

Url(path, query) == [path |-> path, query |-> query]

NoUrl == Url("", <<>>)

\* request.url in place of request.path_url (a variant the code does not
\* implement)
request_url(url) == url

\* req.path_url: the URL without the query string
path_url(url) == Url(url.path, <<>>)

\* 'name' in request.params
HasParam(query, name) == \E i \in 1..Len(query) : query[i].name = name

\* req.GET.get(name): the value of the parameter (the last one of that
\* name), None when there is none
GET_get(query, name) ==
    IF HasParam(query, name)
    THEN LET i == CHOOSE k \in 1..Len(query) :
                    /\ query[k].name = name
                    /\ \A j \in (k + 1)..Len(query) : query[j].name # name
         IN  [isNone |-> FALSE, s |-> query[i].value]
    ELSE [isNone |-> TRUE, s |-> ""]

\* URLs as text: a sequence of tokens, each a reserved character or a run
\* of unreserved ones
Reserved == {":", "/", "?", "=", "&"}

path_str(path) == IF path = "/logout" THEN <<"/", "logout">> ELSE <<"/">>

RECURSIVE query_str(_)
query_str(query) ==
    IF query = <<>> THEN <<>>
    ELSE LET pair == <<query[1].name, "=">>
                     \o (IF query[1].value = "" THEN <<>>
                         ELSE <<query[1].value>>)
         IN  IF Len(query) = 1 THEN pair
             ELSE pair \o <<"&">> \o query_str(Tail(query))

\* req.url: the application URL with its query string
url_str(url) ==
    <<"http", ":", "/", "/", "localhost">> \o path_str(url.path)
    \o (IF url.query = <<>> THEN <<>> ELSE <<"?">> \o query_str(url.query))

\* no quoting at all (a variant the code does not implement)
quote_nothing(str) == str

\* urllib.urlencode quotes the value with quote_plus: every reserved
\* character becomes %XX
quote_plus(str) ==
    [i \in 1..Len(str) |->
        CASE str[i] = ":" -> "%3A"
          [] str[i] = "/" -> "%2F"
          [] str[i] = "?" -> "%3F"
          [] str[i] = "=" -> "%3D"
          [] str[i] = "&" -> "%26"
          [] OTHER -> str[i]]

\* rt.base, the address of the CAS service
cas_addr == <<"http", ":", "/", "/", "example", "/", "cas", "/">>

\* urllib.basejoin(self._a, 'login') + '?' + urllib.urlencode(dict(service=url))
login_there(url) ==
    cas_addr \o <<"login", "?", "service", "=">> \o quote_plus(url_str(url))

\* urllib.basejoin(self._a, 'logout')
logout_there == cas_addr \o <<"logout">>

\* AuthTktAuthenticationPolicy(timeout=10 * 60, reissue_time=1 * 60)
timeout == 10 * 60
reissue_time == 1 * 60

NoCookie == [present |-> FALSE, uid |-> <<>>, ts |-> 0]

\* security.remember(req, uid): the auth_tkt cookie for uid, stamped now
remember(uid, t) == [present |-> TRUE, uid |-> uid, ts |-> t]

\* security.forget(req)
forget == NoCookie

\* the cookie as the authentication policy reads it: nothing when there is
\* none or when it timed out, else the user id and whether it is to be
\* reissued
identify(c, t) ==
    IF ~c.present \/ c.ts + timeout < t
    THEN [authenticated |-> FALSE, uid |-> <<>>, reissue |-> FALSE]
    ELSE [authenticated |-> TRUE, uid |-> c.uid,
          reissue |-> t - c.ts > reissue_time]

\* the answer of the CAS service to a validation call
CasAnswer(io, body) == [io |-> io, body |-> body]

NoAnswerCas == CasAnswer("none", <<>>)

\* self._ua.open(a): one call of the CAS validation endpoint
ValidateCall(service, ticket) == [service |-> service, ticket |-> ticket]

\* the call made once more after an I/O failure (a variant the code does
\* not implement)
ua_open_again(a, cas) == IF cas.io = "IOError" THEN <<a, a>> ELSE <<a>>

\* self._ua.open(a).read(): the calls of the validation endpoint made for
\* address a, whatever comes back
ua_open(a, cas) == <<a>>

CheckResult(raised, calls, location, hdrs) ==
    [raised |-> raised, calls |-> calls, location |-> location, hdrs |-> hdrs]

\* Validator.check, the NewRequest subscriber
check(url, cas, t) ==
    LET tkt == GET_get(url.query, "ticket")
    IN  IF tkt.isNone \/ tkt.s = ""
        THEN CheckResult("none", <<>>, NoUrl, NoCookie)
        ELSE LET a == ValidateCall(path_url(url), tkt.s)
                 opened == ua_open(a, cas)
             IN  IF cas.io = "IOError"
                 THEN CheckResult("IOError", opened, NoUrl, NoCookie)
                 ELSE LET lines == split(cas.body, LF)
                      IN  IF ~(lines # <<>> /\ lines[1] = yes)
                          THEN CheckResult("none", opened, NoUrl, NoCookie)
                          ELSE IF Len(lines) < 2
                          THEN CheckResult("IndexError", opened, NoUrl,
                                           NoCookie)
                          ELSE CheckResult("HTTPFound", opened, path_url(url),
                                           remember(strip(lines[2]), t))

\* a response: status, Location (to the application, to the CAS login with
\* a service URL, to the CAS logout), the cookie set, the user the view
\* ran for; with the request URL, the CAS calls made and the CAS answer
Response(status, to, loc, setCookie, user, exc, url, calls, cas) ==
    [status |-> status, to |-> to, location |-> loc, setCookie |-> setCookie,
     user |-> user, exc |-> exc, url |-> url, calls |-> calls, cas |-> cas,
     sent |-> NoCookie, there |-> <<>>, permits |-> FALSE]

NoSetCookie == [set |-> FALSE, cookie |-> NoCookie]

SetCookie(c) == [set |-> TRUE, cookie |-> c]

NoResp ==
    Response(0, "none", NoUrl, NoSetCookie, <<>>, "none", NoUrl, <<>>,
             NoAnswerCas)

\* Validator.redirect, the view of HTTPForbidden
redirect(url, reissued, calls, cas) ==
    IF HasParam(url.query, "ticket")
    THEN Response(403, "none", NoUrl, reissued, <<>>, "none", url, calls, cas)
    ELSE [Response(303, "login", url, reissued, <<>>, "none", url, calls,
                   cas) EXCEPT !.there = login_there(url)]

\* Validator.logout, the view of the logout route
logout(url, calls, cas) ==
    [Response(303, "logout", NoUrl, SetCookie(forget), <<>>, "none", url,
              calls, cas) EXCEPT !.there = logout_there]

\* one request to the protected view: check, then the authentication
\* policy, then the view if the capabilities of the user permit it
protected_request(url, c, t, cas, permits) ==
    LET chk == check(url, cas, t)
        seen == IF chk.calls = <<>> THEN NoAnswerCas ELSE cas
        id == identify(c, t)
        reissued == IF id.authenticated /\ id.reissue
                    THEN SetCookie(remember(id.uid, t))
                    ELSE NoSetCookie
    IN  IF chk.raised = "HTTPFound"
        THEN [Response(302, "app", chk.location, SetCookie(chk.hdrs), <<>>,
                       "none", url, chk.calls, seen)
                EXCEPT !.there = url_str(chk.location)]
        ELSE IF chk.raised # "none"
        THEN Response(500, "none", NoUrl, NoSetCookie, <<>>, chk.raised, url,
                      chk.calls, seen)
        ELSE IF id.authenticated /\ permits
        THEN Response(200, "none", NoUrl, reissued, id.uid, "none", url,
                      chk.calls, seen)
        ELSE redirect(url, reissued, chk.calls, seen)

\* one POST to the logout route: check, then the logout view
logout_request(url, t, cas) ==
    LET chk == check(url, cas, t)
        seen == IF chk.calls = <<>> THEN NoAnswerCas ELSE cas
    IN  IF chk.raised = "HTTPFound"
        THEN [Response(302, "app", chk.location, SetCookie(chk.hdrs), <<>>,
                       "none", url, chk.calls, seen)
                EXCEPT !.there = url_str(chk.location)]
        ELSE IF chk.raised # "none"
        THEN Response(500, "none", NoUrl, NoSetCookie, <<>>, chk.raised, url,
                      chk.calls, seen)
        ELSE logout(url, chk.calls, seen)

\* the inputs: query strings of at most MaxParams parameters with at most
\* one ticket among them, the answers of the CAS service, the instants
Tickets == {"ST-1", "ST-2"}

ParamChoices ==
    {Param("ticket", t) : t \in Tickets \cup {""}} \cup {Param("q", "x")}

Queries ==
    {q \in UNION {[1..n -> ParamChoices] : n \in 0..MaxParams} :
        Cardinality({i \in 1..Len(q) : q[i].name = "ticket"}) <= 1}

CasBodies ==
    {yes \o <<LF>> \o JohnSmith \o <<LF>>,
     yes \o <<LF>> \o MaryJones \o <<LF>>,
     yes \o <<LF, 32>> \o JohnSmith \o <<13, LF>>,
     yes \o <<LF>> \o JohnSmith,
     yes \o <<LF>>,
     yes,
     no \o <<LF, LF>>,
     <<>>}

\* the read succeeds, or the connection fails before anything comes back,
\* or it fails after the service answered
CasAnswers ==
    {CasAnswer("ok", b) : b \in CasBodies}
    \cup {CasAnswer("IOError", <<>>),
          CasAnswer("IOError", yes \o <<LF>> \o JohnSmith \o <<LF>>)}

Instants ==
    {0, reissue_time - 1, reissue_time, reissue_time + 1,
     timeout - 1, timeout, MaxClock}

(* ------------------------- cas_auth: construction --------------------- *)
\* app_secret of the Mock settings
Sekrit == <<115>>

\* what the configuration can hand over as app_secret: nothing, the empty
\* string, a secret
Secrets == {PyNone, PyStr(EmptyStr), PyStr(Sekrit)}

\* a test that only None fails (a variant the code does not implement)
is_not_none(v) == ~v.isNone

\* assert app_secret: the truth value of None and of '' is False
truthy(v) == ~v.isNone /\ v.s # EmptyStr

\* no Validator yet
NoGuard == [made |-> FALSE, secret |-> PyNone, exc |-> "none"]

\* Validator.__init__(cas_addr, app_secret, ua)
Validator_init(app_secret) ==
    IF truthy(app_secret)
    THEN [made |-> TRUE, secret |-> app_secret, exc |-> "none"]
    ELSE [made |-> FALSE, secret |-> app_secret, exc |-> "AssertionError"]

(* ----------------------------- cache_remote --------------------------- *)
MaxKey == 2
MaxTtl == 2
MaxTime == 5

Keys == 1..MaxKey
Ttls == 1..MaxTtl

\* what a thunk returns as value: the answer for a key, as of a time
Value(k, t) == [for |-> k, at |-> t]

NoValue == Value(0, 0)

Entry(expire, v) == [present |-> TRUE, expire |-> expire, v |-> v]

NoEntry == [present |-> FALSE, expire |-> 0, v |-> NoValue]

EmptyCache == [k \in Keys |-> NoEntry]

\* an entry that counts as fresh one tick too long (a variant the code
\* does not implement)
fresh_at_expiry(expire, t) == expire >= t

\* if expire > tnow: return v
fresh(expire, t) == expire > t

\* thunk(): the remote query for key k, made at time t
thunk(k, ttl, t) == [ttl |-> ttl, v |-> Value(k, t)]

\* for k, (t, _) in self._cache.items(): if t <= tnow: del self._cache[k]
sweep(c, t) ==
    [x \in Keys |-> IF c[x].present /\ c[x].expire <= t THEN NoEntry ELSE c[x]]

\* the key the name k is bound to when the pruning loop is over: the loop
\* variable is k itself, so it is the key the loop visited last, and the
\* requested key only if the cache was empty
LoopKeys(c, k) ==
    IF \E x \in Keys : c[x].present
    THEN {x \in Keys : c[x].present}
    ELSE {k}

QueryResult(op, v, c, calls, stored) ==
    [op |-> op, v |-> v, cache |-> c, calls |-> calls, stored |-> stored]

\* Cache._query(k, thunk) at time t, the dictionary yielding loopKey last
Cache_query(c, k, t, ttl, loopKey) ==
    IF c[k].present /\ fresh(c[k].expire, t)
    THEN QueryResult("hit", c[k].v, c, 0, 0)
    ELSE LET swept == sweep(c, t)
             ans == thunk(k, ttl, t)
         IN  QueryResult("miss", ans.v,
                         [swept EXCEPT ![loopKey] = Entry(t + ans.ttl, ans.v)],
                         1, loopKey)

\* the failure kept as an entry, so that the next read is a hit (a variant
\* the code does not implement)
Cache_query_failure_kept(c, k, t) ==
    IF c[k].present /\ fresh(c[k].expire, t)
    THEN QueryResult("hit", c[k].v, c, 0, 0)
    ELSE QueryResult("raised", NoValue,
                     [sweep(c, t) EXCEPT ![k] = Entry(t + 1, NoValue)], 1, k)

\* Cache._query(k, thunk) at time t when thunk() raises: a hit returns
\* before the thunk is called; on a miss the cache is pruned, the thunk
\* raises at line 31 and line 33 is not reached
Cache_query_raising(c, k, t) ==
    IF c[k].present /\ fresh(c[k].expire, t)
    THEN QueryResult("hit", c[k].v, c, 0, 0)
    ELSE QueryResult("raised", NoValue, sweep(c, t), 1, 0)

NoQuery ==
    [op |-> "none", k |-> 0, ttl |-> 0, t |-> 0, v |-> NoValue, calls |-> 0,
     stored |-> 0, before |-> EmptyCache]

\* the threads that share one Cache
MaxWorker == 2

Workers == 1..MaxWorker

\* a thread outside _query
IdleWorker ==
    [pc |-> "idle", req |-> 0, k |-> 0, tnow |-> 0, items |-> {},
     op |-> "none", v |-> NoValue, err |-> "none"]

\* self._cache.items(): the list of (key, (expire, value)) pairs, of which
\* the pruning loop reads the key and the expiry
items(c) == {[k |-> x, t |-> c[x].expire] : x \in {y \in Keys : c[y].present}}

\* Cache.__init__
InitCache ==
    /\ cache = EmptyCache
    /\ tnow = 0
    /\ lastq = NoQuery
    /\ wk = [w \in Workers |-> IdleWorker]

(* ----------------------------- traincheck ----------------------------- *)
MaxRows == 2
MaxRecord == 2

\* tables of the HSR schema: one of the CITI tables, one of the Chalk ones
TableNames == {"CRS", "HumanSubjectsFull"}

\* the records a caller hands to put: a non-empty list
Records == 1..MaxRecord

RecordLists == UNION {[1..n -> Records] : n \in 1..MaxRows}

NoTable == [exists |-> FALSE, rows |-> <<>>]

\* tdef.drop(dml, checkfirst=True); tdef.create(dml)
tdef_drop(t) == NoTable

tdef_create(t) == [exists |-> TRUE, rows |-> <<>>]

\* dml.execute(tdef.insert(), records)
tdef_insert(t, records) == [t EXCEPT !.rows = t.rows \o records]

PutResult(result, table) == [result |-> result, table |-> table]

\* TrainingRecordsAdmin.put on table t: dbtrx() is a connection, not a
\* transaction, so DROP, CREATE and INSERT take effect one by one; when
\* the INSERT fails the exception leaves put with the table recreated
put(t, records, fails) ==
    LET created == tdef_create(tdef_drop(t))
    IN  IF fails THEN PutResult("DBAPIError", created)
        ELSE PutResult("ok", tdef_insert(created, records))

\* TrainingRecordsAdmin.putDoc: the table is named by the tag of the first
\* record of the document; a document without records ends in
\* StopIteration
putDoc(t, records, fails) ==
    IF records = <<>> THEN PutResult("StopIteration", t)
    ELSE put(t, records, fails)

NoPut == [op |-> "none", name |-> "", records |-> <<>>, result |-> "none",
          before |-> [n \in TableNames |-> NoTable]]

\* a database in which no table has been created yet
InitTrain ==
    /\ hsr = [n \in TableNames |-> NoTable]
    /\ lastput = NoPut

(* ----------------------------- medcenter ------------------------------ *)
MaxMatches == 3

\* the attributes affiliate() asks the search for
AccountAttrs == {"cn", "sn", "givenname", "mail"}

\* one (dn, attrs) pair of a search result: the entry, the attributes it
\* has among those asked for; a directory entry need not have a mail
DirEntry(dn, cn, has) == [dn |-> dn, cn |-> cn, has |-> has]

DirEntries(name) ==
    {DirEntry(dn, name, has) :
        dn \in 1..MaxMatches, has \in {AccountAttrs, AccountAttrs \ {"mail"}}}

\* what self._search('(cn=%s)' % name, ...) can return: entries with
\* different dn, in any order
SearchResults(name) ==
    {ms \in UNION {[1..n -> DirEntries(name)] : n \in 0..MaxMatches} :
        \A i, j \in 1..Len(ms) : i # j => ms[i].dn # ms[j].dn}

Found(result, who) == [result |-> result, who |-> who]

\* AccountHolder.__init__(attrs): attrs['cn'][0], attrs['sn'][0],
\* attrs['givenname'][0], attrs['mail'][0]; KeyError for a missing one
AccountHolder(entry) ==
    IF AccountAttrs \subseteq entry.has
    THEN Found("AccountHolder", entry.dn)
    ELSE Found("KeyError", 0)

\* MedCenter.affiliate(name), given what the search returns
affiliate(name, matches) ==
    IF Len(matches) # 1
    THEN IF Len(matches) = 0
         THEN Found("KeyError", 0)
         ELSE Found("ValueError", 0)
    ELSE AccountHolder(matches[1])

NoFound == [op |-> "none", name |-> EmptyStr, matches |-> <<>>,
            result |-> "None", who |-> 0]

(* ------------------------- oversight requests ------------------------- *)
MaxTeam == 2

\* HeronRecords.SPONSORSHIP, DATA_USE, oversight_request_purposes
SPONSORSHIP == "1"
DATA_USE == "2"
oversight_request_purposes == <<SPONSORSHIP, DATA_USE>>

\* what a caller can pass as what_for
Purposes == {SPONSORSHIP, DATA_USE, "3", ""}

\* the team members a caller names
TeamLists == UNION {[1..n -> Users] : n \in 0..MaxTeam}

\* a survey parameter name: 'user_id', or 'user_id_%d' % n
Key(name) == [name |-> name, numbered |-> FALSE, n |-> 0]

KeyN(name, n) == [name |-> name, numbered |-> TRUE, n |-> n]

\* a survey parameter value: a user id, text made from the directory entry
\* of a user (name_etc, full_name), or a string
Val(kind, of, s) == [kind |-> kind, of |-> of, s |-> s]

Pair(key, value) == [key |-> key, value |-> value]

\* the class of the capability defines ensure_oversight_survey: Faculty
\* only; Affiliate and Executive do not inherit it
has_ensure_oversight_survey(kind) == kind = "Faculty"

\* team members numbered from 0 (a variant the code does not implement)
RECURSIVE team_params_from_zero(_, _, _)
team_params_from_zero(known, uids, i) ==
    IF i > Len(uids)
    THEN [raised |-> "none", lookups |-> <<>>, pairs |-> <<>>]
    ELSE IF uids[i] \notin known
    THEN [raised |-> "NotFound", lookups |-> <<uids[i]>>, pairs |-> <<>>]
    ELSE LET rest == team_params_from_zero(known, uids, i + 1)
         IN  [raised |-> rest.raised,
              lookups |-> <<uids[i]>> \o rest.lookups,
              pairs |-> IF rest.raised # "none" THEN <<>>
                        ELSE <<Pair(KeyN("user_id", i - 1),
                                    Val("uid", uids[i], "")),
                               Pair(KeyN("name_etc", i - 1),
                                    Val("name_etc", uids[i], ""))>>
                             \o rest.pairs]

\* team_params(lookup, uids), from the i-th member on: lookup(uids[i]) for
\* each member in order, the first failure ends it; then the pairs
\* ('user_id_%d' % i, uid), ('name_etc_%d' % i, sn, givenname, title, ou)
RECURSIVE team_params(_, _, _)
team_params(known, uids, i) ==
    IF i > Len(uids)
    THEN [raised |-> "none", lookups |-> <<>>, pairs |-> <<>>]
    ELSE IF uids[i] \notin known
    THEN [raised |-> "NotFound", lookups |-> <<uids[i]>>, pairs |-> <<>>]
    ELSE LET rest == team_params(known, uids, i + 1)
         IN  [raised |-> rest.raised,
              lookups |-> <<uids[i]>> \o rest.lookups,
              pairs |-> IF rest.raised # "none" THEN <<>>
                        ELSE <<Pair(KeyN("user_id", i),
                                    Val("uid", uids[i], "")),
                               Pair(KeyN("name_etc", i),
                                    Val("name_etc", uids[i], ""))>>
                             \o rest.pairs]

\* dict(tp, **kw): the pairs of tp, a later pair and a keyword replacing an
\* earlier pair of the same key
dict(tp, kw) ==
    {tp[i] : i \in {j \in 1..Len(tp) :
                    /\ \A m \in (j + 1)..Len(tp) : tp[m].key # tp[j].key
                    /\ \A p \in kw : p.key # tp[j].key}}
    \cup kw

OversightResult(result, lookups, params, surveys) ==
    [result |-> result, lookups |-> lookups, params |-> params,
     surveys |-> surveys]

\* cap.ensure_oversight_survey(uids, what_for) on a capability of class
\* kind; known is the set of user ids the directory can look up
ensure_oversight_survey(kind, cn, uids, what_for, known) ==
    IF ~has_ensure_oversight_survey(kind)
    THEN OversightResult("AttributeError", <<>>, {}, 0)
    ELSE IF \A i \in 1..Len(oversight_request_purposes) :
                what_for # oversight_request_purposes[i]
    THEN OversightResult("TypeError", <<>>, {}, 0)
    ELSE LET tp == team_params(known, uids, 1)
         IN  IF tp.raised # "none"
             THEN OversightResult(tp.raised, tp.lookups, {}, 0)
             ELSE OversightResult("survey", tp.lookups,
                    dict(tp.pairs,
                         {Pair(Key("user_id"), Val("uid", cn, "")),
                          Pair(Key("full_name"), Val("sort_name", cn, "")),
                          Pair(Key("what_for"), Val("str", <<>>, what_for)),
                          Pair(Key("multi"), Val("str", <<>>, "yes"))}),
                    1)

(* ----------------------------- state ---------------------------------- *)
\* the attributes issue() sets on a request; a capability is referred to by
\* the request it was made for, None is 0
NoAttrs == [executive |-> 0, faculty |-> 0, user |-> 0]

NoCall ==
    [op |-> "none", req |-> 0, cn |-> EmptyStr, kind |-> "None",
     result |-> "None", when |-> PyNone, agent |-> 0, log |-> <<>>,
     rd |-> {}, saa |-> NoSaa, tr |-> NoAnswer, day |-> 0,
     dirFaculty |-> FALSE, perm |-> PERM_USER, resolves |-> FALSE,
     memo0 |-> FALSE, first0 |-> "none", attrs |-> NoAttrs,
     auditors |-> <<>>, principals |-> <<>>,
     team |-> <<>>, what_for |-> "", known |-> {}, lookups |-> <<>>,
     params |-> {}, surveys |-> 0]

\* no browser session yet
InitWeb ==
    /\ cookie = NoCookie
    /\ now = 0
    /\ resp = NoResp
    /\ submitted = {}
    /\ rejected = {}
    /\ spent = {}
    /\ guard = Validator_init(PyStr(Sekrit))

Init ==
    /\ executives \in SUBSET Users
    /\ timesrc \in {"date", "datetime"}
    /\ caps = [r \in ReqIds |-> NoCap]
    /\ last = NoCall
    /\ found = NoFound
    /\ InitWeb
    /\ InitCache
    /\ InitTrain

\* a capability born as if sponsor() had succeeded before (a variant the
\* code does not implement)
Affiliate_init_sponsored(kind, badge) ==
    [kind |-> kind, badge |-> badge, req_badge |-> badge, memo |-> TRUE]

\* Affiliate.__init__ (also of Executive and Faculty), with the Record
\* that issue() closes over the badge of the request: self._sponsor = None
Affiliate_init(kind, badge) ==
    [kind |-> kind, badge |-> badge, req_badge |-> badge, memo |-> FALSE]

\* a sponsorship lookup at issuance (a variant the code does not implement)
issue_checks_eager == <<"sponsor">>

\* the policy checks HeronRecords.issue runs itself: none; it builds the
\* Record and the capability and returns
issue_checks == <<>>

\* HeronRecords.issue(req) for the request r of the user cn
Issue(r, cn, dirFaculty) ==
    /\ last.op = "none"
    /\ LET kind == issue(executives, cn, dirFaculty)
           user == Affiliate_init(kind, Badge(cn))
           ran == run_checks(issue_checks, <<>>, user, {}, NoSaa, NoAnswer,
                             today_isoformat(timesrc, 1))
       IN  /\ caps' = [caps EXCEPT ![r] = [user EXCEPT !.memo = ran.memo]]
           /\ last' = [NoCall EXCEPT !.op = "issue", !.req = r, !.cn = cn,
                          !.kind = kind, !.result = kind,
                          !.dirFaculty = dirFaculty, !.log = ran.log,
                          !.attrs = issue_attrs(r, executives, cn,
                                                dirFaculty)]
    /\ UNCHANGED <<webVars, cacheVars, trainVars, found, executives, timesrc>>

\* user.sponsor() on the capability of request r
SponsorCall(r, rd, day) ==
    /\ last.op = "none"
    /\ caps[r] # NoCap
    /\ LET cap == caps[r]
           s == sponsor(cap, rd, today_isoformat(timesrc, day))
       IN  /\ caps' = [caps EXCEPT ![r].memo = s.memo]
           /\ last' = [NoCall EXCEPT !.op = "sponsor", !.req = r,
                          !.cn = cap.req_badge.cn, !.kind = cap.kind,
                          !.result = IF s.ok THEN "sponsored"
                                     ELSE "NotSponsored",
                          !.log = <<Step("sponsor", cap.req_badge.cn,
                                         s.queried, s.ok)>>,
                          !.rd = IF s.queried THEN rd ELSE {},
                          !.day = IF s.queried THEN day ELSE 0,
                          !.memo0 = cap.memo]
    /\ UNCHANGED <<webVars, cacheVars, trainVars, found, executives, timesrc>>

\* how the first of the sponsor() calls made in a row ended
FirstSponsor(call) ==
    IF call.first0 # "none" THEN call.first0 ELSE call.result

\* user.sponsor() once more on the same capability, right after a
\* sponsor() on it has returned or raised
SponsorAgain(r) ==
    /\ last.op = "sponsor"
    /\ last.req = r
    /\ \E rd \in SmallDBs, day \in Days :
        LET cap == caps[r]
            s == sponsor(cap, rd, today_isoformat(timesrc, day))
        IN  /\ caps' = [caps EXCEPT ![r].memo = s.memo]
            /\ last' = [NoCall EXCEPT !.op = "sponsor", !.req = r,
                           !.cn = cap.req_badge.cn, !.kind = cap.kind,
                           !.result = IF s.ok THEN "sponsored"
                                      ELSE "NotSponsored",
                           !.log = <<Step("sponsor", cap.req_badge.cn,
                                          s.queried, s.ok)>>,
                           !.rd = IF s.queried THEN rd ELSE {},
                           !.day = IF s.queried THEN day ELSE 0,
                           !.memo0 = cap.memo,
                           !.first0 = FirstSponsor(last)]
    /\ UNCHANGED <<webVars, cacheVars, trainVars, found, executives, timesrc>>

Sponsor(r) == \E rd \in SmallDBs, day \in Days : SponsorCall(r, rd, day)

\* user.signature() on the capability of request r
Signature(r) ==
    /\ last.op = "none"
    /\ caps[r] # NoCap
    /\ \E saa \in SaaTables :
        LET cap == caps[r]
            g == get_sig(cap.req_badge, saa)
        IN  last' = [NoCall EXCEPT !.op = "signature", !.req = r,
                        !.cn = cap.req_badge.cn, !.kind = cap.kind,
                        !.result = IF g THEN "None" ELSE "NoAgreement",
                        !.log = <<Step("agreement", cap.req_badge.mail,
                                       TRUE, g)>>,
                        !.saa = saa]
    /\ UNCHANGED <<webVars, cacheVars, trainVars, found, executives, timesrc, caps>>

\* user.training() on the capability of request r
Training(r) ==
    /\ last.op = "none"
    /\ caps[r] # NoCap
    /\ \E tr \in TrainingAnswers, day \in Days :
        LET cap == caps[r]
            t == get_training(tr, today_isoformat(timesrc, day))
        IN  last' = [NoCall EXCEPT !.op = "training", !.req = r,
                        !.cn = cap.req_badge.cn, !.kind = cap.kind,
                        !.result = t.result, !.when = t.when,
                        !.log = <<Step("training", cap.req_badge.cn,
                                       TRUE, t.ok)>>,
                        !.tr = tr, !.day = day]
    /\ UNCHANGED <<webVars, cacheVars, trainVars, found, executives, timesrc, caps>>

\* user.repository_authz() on the capability of request r; `last` keeps
\* the records as they were during the call, read or not
RepositoryAuthz(r) ==
    /\ last.op = "none"
    /\ caps[r] # NoCap
    /\ \E rd \in AuthzDBs, saa \in AuthzSaa, tr \in TrainingAnswers,
          day \in Days :
        LET cap == caps[r]
            out == repository_authz(r, cap, rd, saa, tr,
                                    today_isoformat(timesrc, day))
        IN  /\ caps' = [caps EXCEPT ![r].memo = out.memo]
            /\ last' = [NoCall EXCEPT !.op = "repository_authz", !.req = r,
                           !.cn = cap.req_badge.cn, !.kind = cap.kind,
                           !.result = out.result, !.when = out.when,
                           !.agent = out.agent, !.log = out.log,
                           !.rd = rd, !.saa = saa, !.tr = tr, !.day = day,
                           !.memo0 = cap.memo]
    /\ UNCHANGED <<webVars, cacheVars, trainVars, found, executives, timesrc>>

\* HeronRecords.audit(cap, p) on the capability of request r, or on an
\* object that is no capability (r = NoObj)
Audit(r, p, resolves) ==
    /\ last.op = "none"
    /\ r \in ReqIds => caps[r] # NoCap
    /\ LET kind == IF r \in ReqIds THEN caps[r].kind ELSE "Other"
           res == audit(kind, p, resolves)
       IN  last' = [NoCall EXCEPT !.op = "audit", !.req = r,
                       !.cn = IF r \in ReqIds THEN caps[r].req_badge.cn
                              ELSE EmptyStr,
                       !.kind = kind, !.result = res, !.perm = p,
                       !.resolves = resolves]
    /\ UNCHANGED <<webVars, cacheVars, trainVars, found, executives, timesrc, caps>>

\* the caller takes the answer of the call; the next call can start
\* req.user.ensure_oversight_survey(uids, what_for) on the capability of
\* request r
EnsureOversightSurvey(r, uids, what_for, known) ==
    /\ last.op = "none"
    /\ caps[r] # NoCap
    /\ LET cap == caps[r]
           out == ensure_oversight_survey(cap.kind, cap.badge.cn, uids,
                                          what_for, known)
       IN  last' = [NoCall EXCEPT !.op = "ensure_oversight_survey",
                       !.req = r, !.cn = cap.badge.cn, !.kind = cap.kind,
                       !.result = out.result, !.team = uids,
                       !.what_for = what_for, !.known = known,
                       !.lookups = out.lookups, !.params = out.params,
                       !.surveys = out.surveys]
    /\ UNCHANGED <<webVars, cacheVars, trainVars, found, executives, timesrc, caps>>

\* the authorization policy asks CapabilityStyle([auditors]).permits
Permits(auditors, principals, permission) ==
    /\ last.op = "none"
    /\ last' = [NoCall EXCEPT !.op = "permits", !.auditors = auditors,
                   !.principals = principals, !.perm = permission,
                   !.result = CapabilityStyle_permits(auditors, principals,
                                                      permission)]
    /\ UNCHANGED <<webVars, cacheVars, trainVars, found, executives, timesrc, caps>>

Return ==
    /\ last.op # "none"
    /\ last' = NoCall
    /\ UNCHANGED <<webVars, cacheVars, trainVars, found, executives, timesrc, caps>>

Next ==
    \/ \E r \in ReqIds, cn \in Users, f \in BOOLEAN : Issue(r, cn, f)
    \/ \E r \in ReqIds : Sponsor(r)
    \/ \E r \in ReqIds : Signature(r)
    \/ \E r \in ReqIds : Training(r)
    \/ \E r \in ReqIds : RepositoryAuthz(r)
    \/ \E r \in ReqIds \cup {NoObj}, p \in Permissions, res \in BOOLEAN :
            Audit(r, p, res)
    \/ Return

Spec == Init /\ [][Next]_vars

(* ------------------- sponsorship records, at large -------------------- *)
(* Record 1 of the oversight project with every content of its fields:     *)
(* each institution approved, rejected or did not review; one candidate,   *)
(* or none; an expiration that is absent, empty or a date.  Beside it, one *)
(* of a few other requests: another record, another project.               *)
Absent == <<0>>

Record1Rows(appr, cand, exp) ==
    {Row(OversightProjectId, 1, "user_id", BillStudent)}
    \cup {Row(OversightProjectId, 1, ApproveField(institutions[i]), appr[i]) :
            i \in {j \in 1..Len(institutions) : appr[j] # Absent}}
    \cup (IF cand = Absent THEN {}
          ELSE {Row(OversightProjectId, 1, "user_id_1", cand)})
    \cup (IF exp = Absent THEN {}
          ELSE {Row(OversightProjectId, 1, "date_of_expiration", exp)})

OtherRequests ==
    {{},
     \* the same record number in another project: approved there
     add_oversight_request(OtherProjectId, 1, BillStudent, <<SomeOne>>,
                           AllYes, EmptyStr),
     \* another record of the oversight project, approved for two
     add_oversight_request(OversightProjectId, 2, SomeOne,
                           <<BillStudent, SomeOne>>, AllYes, IsoDate(1)),
     \* another record of the oversight project, rejected
     add_oversight_request(OversightProjectId, 2, BillStudent, <<SomeOne>>,
                           AllNo, EmptyStr)}

RichDBs ==
    {Record1Rows(appr, cand, exp) :
        appr \in [1..Len(institutions) -> {Absent, YES, NO}],
        cand \in {Absent} \cup Users,
        exp \in {Absent} \cup ExpiryValues}
    \cup
    {Record1Rows(appr, cand, EmptyStr) \cup other :
        appr \in [1..Len(institutions) -> {Absent, YES, NO}],
        cand \in {Absent} \cup Users,
        other \in OtherRequests}

\* user.sponsor() against the sponsorship records at large
SponsorRich(r) == \E rd \in RichDBs, day \in Days : SponsorCall(r, rd, day)

NextSponsor ==
    \/ \E r \in ReqIds, cn \in Users, f \in BOOLEAN : Issue(r, cn, f)
    \/ \E r \in ReqIds : SponsorRich(r)
    \/ Return

\* no executives configured: the calls of interest are those of Affiliates
InitSponsor ==
    /\ executives = {}
    /\ timesrc \in {"date", "datetime"}
    /\ caps = [r \in ReqIds |-> NoCap]
    /\ last = NoCall
    /\ found = NoFound
    /\ InitWeb
    /\ InitCache
    /\ InitTrain

SpecSponsor == InitSponsor /\ [][NextSponsor]_vars

(* ------------------------- the web application ------------------------ *)
\* the browser stores the cookie a response sets
Browser(r) == IF r.setCookie.set THEN r.setCookie.cookie ELSE cookie

\* the CAS service: a ticket is good for one validation; the service sees
\* a call unless the connection failed before anything came back
SaysYes(cas) == split(cas.body, LF)[1] = yes

Reached(cas) == ~(cas.io = "IOError" /\ cas.body = <<>>)

CasMayAnswer(url, cas) ==
    LET tkt == GET_get(url.query, "ticket")
    IN  (~tkt.isNone /\ tkt.s \in spent) => ~SaysYes(cas)

TicketsOf(calls) == {calls[i].ticket : i \in 1..Len(calls)}

\* one request and its response: the cookie goes with the request, the
\* browser keeps the cookie of the response, CAS counts the tickets
Exchange(r, cas) ==
    /\ resp' = [r EXCEPT !.sent = cookie]
    /\ cookie' = Browser(r)
    /\ submitted' = submitted \cup TicketsOf(r.calls)
    /\ rejected' = IF r.status = 302 THEN rejected
                   ELSE rejected \cup TicketsOf(r.calls)
    /\ spent' = IF Reached(cas) THEN spent \cup TicketsOf(r.calls) ELSE spent

\* GET of the protected view
Get(url, cas, permits) ==
    /\ guard.made
    /\ resp.status = 0
    /\ CasMayAnswer(url, cas)
    /\ Exchange([protected_request(url, cookie, now, cas, permits)
                    EXCEPT !.permits = permits], cas)
    /\ UNCHANGED <<now, guard, policyVars, cacheVars, trainVars>>

\* POST to the logout route
Logout(url, cas) ==
    /\ guard.made
    /\ resp.status = 0
    /\ CasMayAnswer(url, cas)
    /\ Exchange(logout_request(url, now, cas), cas)
    /\ UNCHANGED <<now, guard, policyVars, cacheVars, trainVars>>

\* the response is delivered
Deliver ==
    /\ resp.status # 0
    /\ resp' = NoResp
    /\ UNCHANGED <<cookie, now, submitted, rejected, spent, guard, policyVars,
                   cacheVars, trainVars>>

\* time passes between requests
Tick(t) ==
    /\ resp.status = 0
    /\ now < t
    /\ now' = t
    /\ UNCHANGED <<cookie, resp, submitted, rejected, spent, guard, policyVars,
                   cacheVars, trainVars>>

InitCas ==
    /\ executives = {}
    /\ timesrc = "date"
    /\ caps = [r \in ReqIds |-> NoCap]
    /\ last = NoCall
    /\ found = NoFound
    /\ InitWeb
    /\ InitCache
    /\ InitTrain

NextCas ==
    \/ \E q \in Queries, cas \in CasAnswers, permits \in BOOLEAN :
            Get(Url("/", q), cas, permits)
    \/ \E q \in Queries, cas \in CasAnswers : Logout(Url("/logout", q), cas)
    \/ \E t \in Instants : Tick(t)
    \/ Deliver

SpecCas == InitCas /\ [][NextCas]_vars

(* ------------------------------ the cache ----------------------------- *)
\* one call of Cache._query for key k whose thunk would answer with ttl
Read(k, ttl, loopKey) ==
    /\ lastq.op = "none"
    /\ loopKey \in LoopKeys(cache, k)
    /\ LET r == Cache_query(cache, k, tnow, ttl, loopKey)
       IN  /\ cache' = r.cache
           /\ lastq' = [op |-> r.op, k |-> k, ttl |-> ttl, t |-> tnow,
                        v |-> r.v, calls |-> r.calls, stored |-> r.stored,
                        before |-> cache]
    /\ UNCHANGED <<tnow, wk, policyVars, webVars, trainVars>>

\* one call of Cache._query for key k whose thunk would raise
ReadRaising(k) ==
    /\ lastq.op = "none"
    /\ LET r == Cache_query_raising(cache, k, tnow)
       IN  /\ cache' = r.cache
           /\ lastq' = [op |-> r.op, k |-> k, ttl |-> 0, t |-> tnow,
                        v |-> r.v, calls |-> r.calls, stored |-> r.stored,
                        before |-> cache]
    /\ UNCHANGED <<tnow, wk, policyVars, webVars, trainVars>>

\* the call returns or the exception has reached the caller
ReturnQuery ==
    /\ lastq.op # "none"
    /\ lastq' = NoQuery
    /\ UNCHANGED <<cache, tnow, wk, policyVars, webVars, trainVars>>

\* self.__now() advances
TickCache ==
    /\ lastq.op = "none"
    /\ tnow < MaxTime
    /\ tnow' = tnow + 1
    /\ UNCHANGED <<cache, lastq, wk, policyVars, webVars, trainVars>>

NextCache ==
    \/ \E k \in Keys, ttl \in Ttls, loopKey \in Keys : Read(k, ttl, loopKey)
    \/ ReturnQuery
    \/ TickCache

SpecCache == InitCas /\ [][NextCache]_vars

\* the remote query may fail
NextCacheRaising ==
    \/ \E k \in Keys, ttl \in Ttls, loopKey \in Keys : Read(k, ttl, loopKey)
    \/ \E k \in Keys : ReadRaising(k)
    \/ ReturnQuery
    \/ TickCache

SpecCacheRaising == InitCas /\ [][NextCacheRaising]_vars

\* the cache used for one key only
FirstKey == CHOOSE k \in Keys : \A x \in Keys : k <= x

NextCacheOne ==
    \/ \E ttl \in Ttls : Read(FirstKey, ttl, FirstKey)
    \/ ReturnQuery
    \/ TickCache

SpecCacheOne == InitCas /\ [][NextCacheOne]_vars

(* ----------------------- the cache, shared by threads ------------------ *)
\* lines 15-26 of _query in thread w: read the clock, look the key up,
\* return on a fresh entry, else take the list of items to prune
Enter(w, k) ==
    /\ wk[w].pc = "idle"
    /\ wk' = [wk EXCEPT ![w] =
                IF cache[k].present /\ fresh(cache[k].expire, tnow)
                THEN [IdleWorker EXCEPT !.pc = "done", !.req = k, !.k = k,
                                        !.tnow = tnow, !.op = "hit",
                                        !.v = cache[k].v]
                ELSE [IdleWorker EXCEPT !.pc = "prune", !.req = k, !.k = k,
                                        !.tnow = tnow,
                                        !.items = items(cache)]]
    /\ UNCHANGED <<cache, tnow, lastq, policyVars, webVars, trainVars>>

\* one turn of the loop at lines 26-28 in thread w: bind k to the next
\* item and delete its entry if the item had expired; del raises KeyError
\* when the dictionary no longer has the key
Prune(w) ==
    /\ wk[w].pc = "prune"
    /\ \E it \in wk[w].items :
          IF it.t <= wk[w].tnow
          THEN IF cache[it.k].present
               THEN /\ cache' = [cache EXCEPT ![it.k] = NoEntry]
                    /\ wk' = [wk EXCEPT ![w].k = it.k,
                                        ![w].items = wk[w].items \ {it}]
               ELSE /\ wk' = [wk EXCEPT ![w].k = it.k,
                                        ![w].pc = "done",
                                        ![w].op = "raise",
                                        ![w].err = "KeyError"]
                    /\ UNCHANGED cache
          ELSE /\ wk' = [wk EXCEPT ![w].k = it.k,
                                   ![w].items = wk[w].items \ {it}]
               /\ UNCHANGED cache
    /\ UNCHANGED <<tnow, lastq, policyVars, webVars, trainVars>>

\* lines 30-34 in thread w, the loop over: call the thunk and store
Store(w, ttl) ==
    /\ wk[w].pc = "prune"
    /\ wk[w].items = {}
    /\ LET ans == thunk(wk[w].req, ttl, wk[w].tnow)
       IN  /\ cache' = [cache EXCEPT
                          ![wk[w].k] = Entry(wk[w].tnow + ans.ttl, ans.v)]
           /\ wk' = [wk EXCEPT ![w].pc = "done", ![w].op = "miss",
                               ![w].v = ans.v]
    /\ UNCHANGED <<tnow, lastq, policyVars, webVars, trainVars>>

\* thread w is out of _query
Leave(w) ==
    /\ wk[w].pc = "done"
    /\ wk' = [wk EXCEPT ![w] = IdleWorker]
    /\ UNCHANGED <<cache, tnow, lastq, policyVars, webVars, trainVars>>

\* self.__now() advances, also while threads are inside _query; by
\* MaxTtl an entry stored at the start has expired
TickThreads ==
    /\ tnow < MaxTtl
    /\ tnow' = tnow + 1
    /\ UNCHANGED <<cache, lastq, wk, policyVars, webVars, trainVars>>

NextThreads ==
    \/ \E w \in Workers, k \in Keys : Enter(w, k)
    \/ \E w \in Workers : Prune(w)
    \/ \E w \in Workers, ttl \in Ttls : Store(w, ttl)
    \/ \E w \in Workers : Leave(w)
    \/ TickThreads

SpecThreads == InitCas /\ [][NextThreads]_vars

(* --------------------------- the login flow --------------------------- *)
\* the answers by which the CAS service accepts a ticket: yes and, on the
\* next line, a user id
CasAccepts ==
    {cas \in CasAnswers :
        /\ cas.io = "ok"
        /\ SaysYes(cas)
        /\ Len(split(cas.body, LF)) >= 2
        /\ strip(split(cas.body, LF)[2]) # <<>>}

\* the client opens the protected view; the policy permits the view to
\* the user once authenticated
Visit(url) ==
    /\ ~HasParam(url.query, "ticket")
    /\ Get(url, NoAnswerCas, TRUE)

\* sent to the CAS login, the client comes back to the service URL with a
\* fresh ticket, which CAS accepts when the application validates it
FollowLogin(tkt, cas) ==
    /\ resp.status = 303
    /\ resp.to = "login"
    /\ tkt \notin spent
    /\ LET url == Url(resp.location.path,
                      Append(resp.location.query, Param("ticket", tkt)))
       IN  Exchange([protected_request(url, cookie, now, cas, TRUE)
                        EXCEPT !.permits = TRUE], cas)
    /\ UNCHANGED <<now, guard, policyVars, cacheVars, trainVars>>

\* the client follows the redirect of the application
FollowFound ==
    /\ resp.status = 302
    /\ resp.to = "app"
    /\ Exchange([protected_request(resp.location, cookie, now, NoAnswerCas,
                                   TRUE)
                    EXCEPT !.permits = TRUE], NoAnswerCas)
    /\ UNCHANGED <<now, guard, policyVars, cacheVars, trainVars>>

\* no valid credential: no cookie at all, or a cookie that has timed out
InitFlow ==
    /\ executives = {}
    /\ timesrc = "date"
    /\ caps = [r \in ReqIds |-> NoCap]
    /\ last = NoCall
    /\ found = NoFound
    /\ resp = NoResp
    /\ submitted = {}
    /\ rejected = {}
    /\ spent = {}
    /\ guard = Validator_init(PyStr(Sekrit))
    /\ InitCache
    /\ InitTrain
    /\ \/ cookie = NoCookie /\ now \in Instants
       \/ cookie = remember(JohnSmith, 0) /\ now = MaxClock

NextFlow ==
    \/ \E q \in Queries : Visit(Url("/", q))
    \/ \E tkt \in Tickets, cas \in CasAccepts : FollowLogin(tkt, cas)
    \/ FollowFound

SpecFlow == InitFlow /\ [][NextFlow]_vars /\ WF_vars(NextFlow)

(* ------------------------------ startup ------------------------------- *)
\* SetUp.validator: the injector constructs the Validator from the options
Construct(app_secret) ==
    /\ guard = NoGuard
    /\ guard' = Validator_init(app_secret)
    /\ UNCHANGED <<cookie, now, resp, submitted, rejected, spent, policyVars,
                   cacheVars, trainVars>>

InitStartup ==
    /\ executives = {}
    /\ timesrc = "date"
    /\ caps = [r \in ReqIds |-> NoCap]
    /\ last = NoCall
    /\ found = NoFound
    /\ cookie = NoCookie
    /\ now = 0
    /\ resp = NoResp
    /\ submitted = {}
    /\ rejected = {}
    /\ spent = {}
    /\ guard = NoGuard
    /\ InitCache
    /\ InitTrain

NextStartup ==
    \/ \E app_secret \in Secrets : Construct(app_secret)
    \/ \E q \in Queries, cas \in CasAnswers, permits \in BOOLEAN :
            Get(Url("/", q), cas, permits)
    \/ \E q \in Queries, cas \in CasAnswers : Logout(Url("/logout", q), cas)
    \/ Deliver

SpecStartup == InitStartup /\ [][NextStartup]_vars

(* ------------------------ sponsor() called again ---------------------- *)
NextMemo ==
    \/ \E r \in ReqIds, cn \in Users, f \in BOOLEAN : Issue(r, cn, f)
    \/ \E r \in ReqIds : Sponsor(r)
    \/ \E r \in ReqIds : SponsorAgain(r)
    \/ Return

SpecMemo == InitSponsor /\ [][NextMemo]_vars

(* ----------------------- the authorization policy --------------------- *)
NextPermits ==
    \/ \E auditors \in AuditorLists, principals \in PrincipalLists,
          permission \in Permissions \cup {TREASURE} :
            Permits(auditors, principals, permission)
    \/ Return

SpecPermits == InitCas /\ [][NextPermits]_vars

(* -------------------------- oversight requests ------------------------ *)
NextOversight ==
    \/ \E r \in ReqIds, cn \in Users, f \in BOOLEAN : Issue(r, cn, f)
    \/ \E r \in ReqIds, uids \in TeamLists, what_for \in Purposes,
          known \in SUBSET Users :
            EnsureOversightSurvey(r, uids, what_for, known)
    \/ Return

SpecOversight == Init /\ [][NextOversight]_vars

(* ------------------------- the training records ----------------------- *)
\* admin.put(name, records)
Put(name, records, fails) ==
    /\ lastput.op = "none"
    /\ LET r == put(hsr[name], records, fails)
       IN  /\ hsr' = [hsr EXCEPT ![name] = r.table]
           /\ lastput' = [op |-> "put", name |-> name, records |-> records,
                          result |-> r.result, before |-> hsr]
    /\ UNCHANGED <<policyVars, webVars, cacheVars>>

\* admin.putDoc(doc) for a document of records of the table name
PutDoc(name, records, fails) ==
    /\ lastput.op = "none"
    /\ LET r == putDoc(hsr[name], records, fails)
       IN  /\ hsr' = [hsr EXCEPT ![name] = r.table]
           /\ lastput' = [op |-> "putDoc", name |-> name,
                          records |-> records, result |-> r.result,
                          before |-> hsr]
    /\ UNCHANGED <<policyVars, webVars, cacheVars>>

\* the call returns or raises
ReturnPut ==
    /\ lastput.op # "none"
    /\ lastput' = NoPut
    /\ UNCHANGED <<hsr, policyVars, webVars, cacheVars>>

NextTrain ==
    \/ \E name \in TableNames, records \in RecordLists, fails \in BOOLEAN :
            Put(name, records, fails)
    \/ \E name \in TableNames, records \in RecordLists \cup {<<>>},
          fails \in BOOLEAN :
            PutDoc(name, records, fails)
    \/ ReturnPut

SpecTrain == InitCas /\ [][NextTrain]_vars

(* -------------------------- several requests -------------------------- *)
\* one request more than ReqIds, each with its own req.user
Requests == 1..(MaxReq + 1)

InitRequests ==
    /\ executives = {}
    /\ timesrc = "date"
    /\ caps = [r \in Requests |-> NoCap]
    /\ last = NoCall
    /\ found = NoFound
    /\ InitWeb
    /\ InitCache
    /\ InitTrain

NextRequests ==
    \/ \E r \in Requests, cn \in Users, f \in BOOLEAN : Issue(r, cn, f)
    \/ \E r \in Requests : Sponsor(r)
    \/ Return

SpecRequests == InitRequests /\ [][NextRequests]_vars

(* ---------------------------- the directory --------------------------- *)
\* one call of MedCenter.affiliate(name)
Affiliate(name, matches) ==
    /\ found.op = "none"
    /\ LET f == affiliate(name, matches)
       IN  found' = [op |-> "affiliate", name |-> name, matches |-> matches,
                     result |-> f.result, who |-> f.who]
    /\ UNCHANGED <<executives, timesrc, caps, last, webVars, cacheVars, trainVars>>

\* the call returns or raises
ReturnFound ==
    /\ found.op # "none"
    /\ found' = NoFound
    /\ UNCHANGED <<executives, timesrc, caps, last, webVars, cacheVars, trainVars>>

NextDirectory ==
    \/ \E name \in Users :
          \E matches \in SearchResults(name) : Affiliate(name, matches)
    \/ ReturnFound

SpecDirectory == InitCas /\ [][NextDirectory]_vars

(* ======================= properties: policy engine ==================== *)
\* the capability of the last call as it was when the call started
CapBefore == [caps[last.req] EXCEPT !.memo = last.memo0]

\* today().isoformat() at the time of the last call
CallIso == today_isoformat(timesrc, last.day)

\* the three checks of repository_authz, each on the records of the call
SponsorPasses == sponsor(CapBefore, last.rd, CallIso).ok
AgreementPasses == get_sig(CapBefore.req_badge, last.saa)
TrainingPasses == get_training(last.tr, CallIso).ok

\* C1: repository_authz() returns an Access marker only when the sponsor,
\* agreement and training checks have all succeeded for the identity of the
\* capability in that call; whenever all three succeed it returns, without
\* raising, a marker whose agent is the capability it was invoked on.
C1_AccessIffAllChecksPass ==
    last.op = "repository_authz" =>
        /\ last.result = "Access" <=>
                (SponsorPasses /\ AgreementPasses /\ TrainingPasses)
        /\ last.result = "Access" =>
            /\ last.agent = last.req
            /\ Len(last.log) = 3
            /\ \A i \in 1..3 : last.log[i].ok
            /\ last.log[1].key = caps[last.req].badge.cn
            /\ last.log[2].key = caps[last.req].badge.mail
            /\ last.log[3].key = caps[last.req].badge.cn
        /\ last.result # "Access" => last.agent = 0

C1_Witness ==
    /\ last.op = "repository_authz"
    /\ last.kind = "Affiliate"
    /\ last.result = "Access"
    /\ last.log[1].queried

\* C2: repository_authz() checks sponsor, then agreement, then training and
\* stops at the first failure: the error is that of the first check that
\* fails in this order, and no later check is made; when sponsor() fails
\* there is no agreement and no training lookup.
C2_FirstFailureInOrder ==
    last.op = "repository_authz" =>
        LET order == <<"sponsor", "agreement", "training">>
            expected == IF ~SponsorPasses THEN "NotSponsored"
                        ELSE IF ~AgreementPasses THEN "NoAgreement"
                        ELSE IF ~TrainingPasses THEN "NoTraining"
                        ELSE "Access"
            made == IF ~SponsorPasses THEN 1
                    ELSE IF ~AgreementPasses THEN 2
                    ELSE 3
        IN  /\ last.result = expected
            /\ Len(last.log) = made
            /\ \A i \in 1..Len(last.log) : last.log[i].step = order[i]
            /\ \A i \in 1..(Len(last.log) - 1) : last.log[i].ok

\* sponsor() fails and the agreement and the training are missing as well
C2_Witness ==
    /\ last.op = "repository_authz"
    /\ last.result = "NotSponsored"
    /\ ~AgreementPasses
    /\ ~TrainingPasses
    /\ Len(last.log) = 1

\* C3: issue() returns one capability by strict priority: Executive if the
\* id is on the allow-list (also for an identity the directory classifies
\* as faculty), else Faculty if the directory classifies it as faculty,
\* else Affiliate.
C3_IssuePriority ==
    last.op = "issue" =>
        /\ last.cn \in executives => last.result = "Executive"
        /\ (last.cn \notin executives /\ last.dirFaculty) =>
                last.result = "Faculty"
        /\ (last.cn \notin executives /\ ~last.dirFaculty) =>
                last.result = "Affiliate"
        /\ caps[last.req].kind = last.result
        /\ caps[last.req].badge.cn = last.cn

C3_Witness ==
    /\ last.op = "issue"
    /\ last.cn \in executives
    /\ last.dirFaculty
    /\ last.result = "Executive"

\* the records of the oversight project, in the words of the policy: the
\* institutions that approved a record, the candidates it names, the day
\* it expires on (if it has one)
ApprovingInstitutions(rd, rec) ==
    {org \in Orgs :
        Row(OversightProjectId, rec, ApproveField(org), YES) \in rd}

NamesCandidate(rd, rec, cn) ==
    \E f \in CandidateFields : Row(OversightProjectId, rec, f, cn) \in rd

ExpirationRows(rd, rec) ==
    {row \in rd : /\ row.project_id = OversightProjectId
                  /\ row.record = rec
                  /\ row.field_name = "date_of_expiration"}

\* no expiration, an empty one, or a date that is today or later
Unexpired(rd, rec, day) ==
    \A row \in ExpirationRows(rd, rec) :
        row.value = EmptyStr \/ \E d \in Days : row.value = IsoDate(d) /\ day <= d

\* an expiration date strictly before today
ExpiredBefore(rd, rec, day) ==
    \E row \in ExpirationRows(rd, rec) :
        \E d \in Days : row.value = IsoDate(d) /\ d < day

RecordsOf(rd) == {row.record : row \in rd}

\* a sponsor() call of an Affiliate that asked the sponsorship records
SponsorQueried ==
    /\ last.op = "sponsor"
    /\ last.kind = "Affiliate"
    /\ last.log[1].queried

\* C4: for an Affiliate, sponsor() succeeds iff the records of the oversight
\* project hold a record that names the identity as candidate, is approved
\* by all three institutions and is unexpired; otherwise NotSponsored.
C4_SponsoredIffApprovedUnexpired ==
    SponsorQueried =>
        /\ last.result \in {"sponsored", "NotSponsored"}
        /\ last.result = "sponsored" <=>
            \E rec \in RecordsOf(last.rd) :
                /\ NamesCandidate(last.rd, rec, last.cn)
                /\ ApprovingInstitutions(last.rd, rec) = Orgs
                /\ Unexpired(last.rd, rec, last.day)

\* an Affiliate named in a unanimous, unexpired record is refused
C4_Witness ==
    /\ SponsorQueried
    /\ last.result = "NotSponsored"
    /\ \E rec \in RecordsOf(last.rd) :
        /\ NamesCandidate(last.rd, rec, last.cn)
        /\ ApprovingInstitutions(last.rd, rec) = Orgs
        /\ Unexpired(last.rd, rec, last.day)

\* C5: a record counts as approved only if the number of distinct
\* institutions with an approving event for it equals the number of
\* participating institutions; a record that at most N-1 institutions
\* approved never satisfies sponsor().
C5_UnanimousOnly ==
    /\ SponsorQueried /\ last.result = "sponsored" =>
        \E rec \in RecordsOf(last.rd) :
            /\ NamesCandidate(last.rd, rec, last.cn)
            /\ Cardinality(ApprovingInstitutions(last.rd, rec))
                    = Len(institutions)
    /\ SponsorQueried =>
        \A d \in sponsor_decision(last.rd, OversightProjectId) :
            d.decision = YES =>
                Cardinality(ApprovingInstitutions(last.rd, d.record))
                    = Len(institutions)

\* two of three institutions approved the only record naming the identity
C5_Witness ==
    /\ SponsorQueried
    /\ last.result = "NotSponsored"
    /\ \E rec \in RecordsOf(last.rd) :
        /\ NamesCandidate(last.rd, rec, last.cn)
        /\ Cardinality(ApprovingInstitutions(last.rd, rec))
                = Len(institutions) - 1
        /\ Unexpired(last.rd, rec, last.day)

\* C6: a decision whose expiration is strictly before today never
\* satisfies sponsor(), whatever its approvals; a unanimous decision whose
\* expiration is empty, absent, or today or later does satisfy it.
C6_ExpirationDecides ==
    SponsorQueried =>
        /\ last.result = "sponsored" =>
            \E rec \in RecordsOf(last.rd) :
                /\ NamesCandidate(last.rd, rec, last.cn)
                /\ ~ExpiredBefore(last.rd, rec, last.day)
        /\ (\E rec \in RecordsOf(last.rd) :
                /\ NamesCandidate(last.rd, rec, last.cn)
                /\ ApprovingInstitutions(last.rd, rec) = Orgs
                /\ Unexpired(last.rd, rec, last.day))
            => last.result = "sponsored"

\* the only record naming the identity is unanimous and expires today, the
\* time source is datetime.datetime, and sponsor() raises NotSponsored
C6_Witness ==
    /\ SponsorQueried
    /\ timesrc = "datetime"
    /\ last.result = "NotSponsored"
    /\ \E rec \in RecordsOf(last.rd) :
        /\ NamesCandidate(last.rd, rec, last.cn)
        /\ ApprovingInstitutions(last.rd, rec) = Orgs
        /\ \E row \in ExpirationRows(last.rd, rec) :
                row.value = IsoDate(last.day)

\* C7: for Executive and Faculty capabilities sponsor() always succeeds and
\* never queries the sponsorship records; their repository_authz() depends
\* on the agreement and training checks only.
C7_SelfSponsored ==
    (last.op \in {"sponsor", "repository_authz"}
        /\ last.kind \in {"Executive", "Faculty"}) =>
        /\ last.log[1].step = "sponsor"
        /\ last.log[1].ok
        /\ ~last.log[1].queried
        /\ last.op = "sponsor" => last.result = "sponsored"
        /\ last.op = "repository_authz" =>
            last.result = IF ~AgreementPasses THEN "NoAgreement"
                          ELSE IF ~TrainingPasses THEN "NoTraining"
                          ELSE "Access"

\* a faculty member gets access while the sponsorship records are empty
C7_Witness ==
    /\ last.op = "repository_authz"
    /\ last.kind = "Faculty"
    /\ last.rd = {}
    /\ last.result = "Access"

\* C8: training() raises NoTraining when the directory has no date, when
\* the lookup fails with an I/O error, or when the date is earlier than
\* today, and returns the date only when it is today or later; NoTraining
\* carries the date exactly in the expired case; no I/O error escapes.
C8_TrainingFailsClosed ==
    last.op = "training" =>
        LET expired == last.tr.status = "ok" /\ last.tr.when[1] < last.day
        IN  /\ last.result \in {"date", "NoTraining"}
            /\ last.tr.status \in {"KeyError", "IOError"} =>
                (last.result = "NoTraining" /\ last.when = PyNone)
            /\ expired =>
                (last.result = "NoTraining" /\ last.when = PyStr(last.tr.when))
            /\ last.result = "date" =>
                /\ last.tr.status = "ok"
                /\ last.tr.when[1] >= last.day
                /\ last.when = PyStr(last.tr.when)
            /\ (last.result = "NoTraining" /\ ~last.when.isNone) => expired

\* training completed today is reported as expired, with its date
C8_Witness ==
    /\ last.op = "training"
    /\ last.tr.status = "ok"
    /\ last.tr.when = IsoDate(last.day)
    /\ last.result = "NoTraining"
    /\ last.when = PyStr(last.tr.when)

SponsorAsked ==
    /\ last.op = "sponsor"
    /\ last.kind = "Affiliate"
    /\ last.first0 # "none"

\* C23: once sponsor() has run on an Affiliate capability, a later
\* sponsor() on it does not query the sponsorship records again and ends
\* as the first one did, sponsored or NotSponsored
C23_SponsorComputedOnce ==
    SponsorAsked =>
       /\ ~last.log[1].queried
       /\ last.log[1].ok <=> (last.first0 = "sponsored")

\* a capability whose first sponsor() raised NotSponsored queries the
\* records again and is now sponsored
C23_Witness ==
    /\ SponsorAsked
    /\ last.first0 = "NotSponsored"
    /\ last.log[1].queried
    /\ last.log[1].ok
    /\ caps[last.req].memo

\* the calls that make a sponsorship, agreement or training lookup
LookupCalls == {"sponsor", "signature", "training", "repository_authz"}

\* C24: issue() leaves a capability that has made no lookup and holds no
\* sponsor result; a lookup is made only by sponsor(), signature(),
\* training() or repository_authz()
C24_IssueClassifiesOnly ==
    /\ last.op = "issue" =>
          /\ last.log = <<>>
          /\ ~caps[last.req].memo
    /\ last.log # <<>> => last.op \in LookupCalls

\* issue() has just classified a user as a plain affiliate
C24_Witness ==
    /\ last.op = "issue"
    /\ last.kind = "Affiliate"
    /\ caps[last.req].kind = "Affiliate"
    /\ last.log = <<>>

\* a survey response is on file for the address and the survey
ResponseOnFile(mail, sid) ==
    \E p \in last.saa.participants :
       /\ p.participant_email = mail
       /\ p.survey_id = sid
       /\ \E rs \in last.saa.response : rs.participant_id = p.participant_id

\* C25: signature() raises NoAgreement iff no survey response is on file
\* for the contact address of the identity and the configured survey id; a
\* sponsored affiliate with current training and no such response gets
\* NoAgreement from repository_authz()
C25_NoAgreementIffNoResponse ==
    /\ last.op = "signature" =>
          (last.result = "NoAgreement"
              <=> ~ResponseOnFile(MailOf(last.cn), SaaSurveyId))
    /\ (/\ last.op = "repository_authz"
        /\ SponsorPasses
        /\ TrainingPasses
        /\ ~ResponseOnFile(MailOf(last.cn), SaaSurveyId))
          => last.result = "NoAgreement"

\* a sponsored affiliate with current training whose only survey response
\* is on file under another survey id, refused with NoAgreement
C25_Witness ==
    /\ last.op = "repository_authz"
    /\ last.kind = "Affiliate"
    /\ SponsorPasses
    /\ TrainingPasses
    /\ ResponseOnFile(MailOf(last.cn), OtherSurveyId)
    /\ last.result = "NoAgreement"

(* ======================= properties: CAS validation =================== *)
\* the CAS service answered the validation call of the last request with
\* "yes" and the user id u
CasSaidYes(u) ==
    /\ resp.calls # <<>>
    /\ resp.cas.io = "ok"
    /\ resp.cas.body \in {yes \o <<LF>> \o u,
                          yes \o <<LF>> \o u \o <<LF>>,
                          yes \o <<LF, 32>> \o u \o <<13, LF>>}

\* the requested URL without its ticket parameter
StripTicket(url) ==
    Url(url.path, SelectSeq(url.query, LAMBDA prm : prm.name # "ticket"))

\* C10: when CAS answers a ticket validation with "yes" and a user id, the
\* validator mints a credential for exactly that user id and redirects to
\* the originally requested URL with the ticket parameter stripped, so the
\* redirect target never contains the ticket.
C10_YesMintsAndRedirectsToOriginal ==
    \A u \in {JohnSmith, MaryJones} :
        CasSaidYes(u) =>
            /\ resp.setCookie = SetCookie(remember(u, now))
            /\ cookie = remember(u, now)
            /\ resp.to = "app"
            /\ resp.location = StripTicket(resp.url)
            /\ ~HasParam(resp.location.query, "ticket")

\* the other parameters of the requested URL are lost in the redirect
C10_Witness ==
    /\ CasSaidYes(JohnSmith)
    /\ resp.to = "app"
    /\ HasParam(resp.url.query, "q")
    /\ ~HasParam(resp.location.query, "q")
    /\ cookie = remember(JohnSmith, now)

\* the last request carried no credential the policy accepts
CameAnonymous == ~identify(resp.sent, now).authenticated

\* the application asked CAS about a ticket and did not get "yes" with a
\* user id: "no", a malformed answer, or a failed call
ValidationFailed ==
    /\ resp.calls # <<>>
    /\ ~\E u \in {JohnSmith, MaryJones} : CasSaidYes(u)

\* C11: when the CAS validation answers "no", answers with a malformed
\* response ("yes" with no second line, an empty body) or fails with an I/O
\* error, validation fails as an authentication failure (no raw fault), no
\* credential is minted and the session is Anonymous afterwards.
C11_FailedValidationStaysAnonymous ==
    (ValidationFailed /\ CameAnonymous) =>
        /\ resp.exc = "none"
        /\ resp.status \in {303, 403}
        /\ ~resp.setCookie.set
        /\ ~identify(cookie, now).authenticated

\* CAS answers "yes" with no second line and the IndexError escapes
C11_Witness ==
    /\ ValidationFailed
    /\ CameAnonymous
    /\ resp.cas = CasAnswer("ok", yes)
    /\ resp.exc = "IndexError"
    /\ resp.status = 500

\* %XX back to the character it stands for
unquote(str) ==
    [i \in 1..Len(str) |->
        CASE str[i] = "%3A" -> ":"
          [] str[i] = "%2F" -> "/"
          [] str[i] = "%3F" -> "?"
          [] str[i] = "%3D" -> "="
          [] str[i] = "%26" -> "&"
          [] OTHER -> str[i]]

\* the text of a URL, written out from its parts
RECURSIVE QueryText(_)
QueryText(query) ==
    IF query = <<>> THEN <<>>
    ELSE (IF query[1].value = "" THEN <<query[1].name, "=">>
          ELSE <<query[1].name, "=", query[1].value>>)
         \o (IF Len(query) > 1 THEN <<"&">> ELSE <<>>)
         \o QueryText(Tail(query))

UrlText(url) ==
    <<"http", ":", "/", "/", "localhost">>
    \o (IF url.path = "/" THEN <<"/">> ELSE <<"/", "logout">>)
    \o (IF url.query = <<>> THEN <<>> ELSE <<"?">>)
    \o QueryText(url.query)

CasLoginText ==
    <<"http", ":", "/", "/", "example", "/", "cas", "/", "login", "?",
      "service", "=">>

\* C12: a request with no credential and no ticket is answered with a 303
\* redirect to the CAS login endpoint whose service parameter is the
\* URL-encoded original request URL, and no credential is minted.
C12_ChallengeWithEncodedService ==
    (resp.status # 0 /\ resp.url.path = "/" /\ CameAnonymous
        /\ ~HasParam(resp.url.query, "ticket")) =>
        /\ resp.status = 303
        /\ Len(resp.there) > Len(CasLoginText)
        /\ SubSeq(resp.there, 1, Len(CasLoginText)) = CasLoginText
        /\ LET service == SubSeq(resp.there, Len(CasLoginText) + 1,
                                 Len(resp.there))
           IN  /\ \A i \in 1..Len(service) : service[i] \notin Reserved
               /\ unquote(service) = UrlText(resp.url)
        /\ ~resp.setCookie.set
        /\ cookie = resp.sent
        /\ resp.calls = <<>>

\* the requested URL has a query string, which is quoted into the service
C12_Witness ==
    /\ resp.status = 303
    /\ resp.to = "login"
    /\ ~resp.sent.present
    /\ resp.url.query = <<Param("q", "x")>>
    /\ resp.there = CasLoginText \o <<"http", "%3A", "%2F", "%2F", "localhost",
                                      "%2F", "%3F", "q", "%3D", "x">>

\* C13: every authentication failure (bad, expired or reused ticket, CAS
\* unreachable, malformed response) routes the client to a fresh login
\* challenge, a redirect to the CAS login endpoint, and the failed ticket
\* is never submitted to CAS again by this system.
C13_FailureRoutesToFreshChallenge ==
    [][(resp.status = 0 /\ resp'.status # 0) =>
            /\ (ValidationFailed' /\ CameAnonymous') =>
                    (resp'.status = 303 /\ resp'.to = "login")
            /\ TicketsOf(resp'.calls) \cap rejected = {}]_vars

\* CAS says "no" and the client is left with 403 Forbidden, unchallenged
C13_Witness ==
    /\ ValidationFailed
    /\ CameAnonymous
    /\ resp.cas = CasAnswer("ok", no \o <<LF, LF>>)
    /\ resp.status = 403
    /\ resp.to = "none"

\* C14: validating the same ticket value a second time fails: after a
\* ticket has been validated once, successfully or not, a later request
\* presenting that ticket never mints a credential.
C14_TicketNeverAcceptedTwice ==
    [][(resp.status = 0 /\ resp'.status # 0
            /\ GET_get(resp'.url.query, "ticket").s \in submitted) =>
            /\ resp'.status # 302
            /\ ~(resp'.setCookie.set /\ resp'.setCookie.cookie.present
                    /\ resp'.setCookie.cookie # remember(resp'.sent.uid, now))]_vars

\* a ticket whose first validation failed is accepted when presented again
C14_Witness ==
    /\ resp.status = 302
    /\ resp.calls # <<>>
    /\ TicketsOf(resp.calls) \subseteq rejected
    /\ cookie = remember(JohnSmith, now)

(* ======================= properties: session credential =============== *)
\* the last request was a GET of the protected view that carried a
\* credential and no ticket parameter
CameWithCredential ==
    /\ resp.status # 0
    /\ resp.url.path = "/"
    /\ ~HasParam(resp.url.query, "ticket")
    /\ resp.sent.present

\* the age of the credential the last request carried
Age == now - resp.sent.ts

\* C15: a credential issued at t0 is accepted for every request at age
\* < 600s and rejected at age >= 600s; once expired the session is treated
\* as Anonymous and the next request without a ticket receives a fresh CAS
\* login challenge.
C15_TimeoutAt600 ==
    CameWithCredential =>
        /\ (Age < 600 /\ resp.permits) =>
                (resp.status = 200 /\ resp.user = resp.sent.uid)
        /\ Age >= 600 =>
                /\ resp.status = 303
                /\ resp.to = "login"
                /\ ~resp.setCookie.set
                /\ resp.user = <<>>

\* a credential of age exactly 600s is still accepted
C15_Witness ==
    /\ CameWithCredential
    /\ Age = 600
    /\ resp.status = 200
    /\ resp.user = resp.sent.uid

\* C16: a request bearing a credential of age >= 60s and < 600s gets the
\* credential reissued with a fresh issue time and the same identity,
\* without any call to the CAS validation endpoint; a credential of age
\* < 60s is left unchanged.
C16_ReissueFrom60 ==
    CameWithCredential =>
        /\ (Age >= 60 /\ Age < 600) =>
                /\ resp.setCookie = SetCookie(remember(resp.sent.uid, now))
                /\ cookie = remember(resp.sent.uid, now)
                /\ resp.calls = <<>>
        /\ Age < 60 =>
                /\ ~resp.setCookie.set
                /\ cookie = resp.sent
                /\ resp.calls = <<>>

\* a credential of age exactly 60s is accepted and not reissued
C16_Witness ==
    /\ CameWithCredential
    /\ Age = 60
    /\ resp.status = 200
    /\ ~resp.setCookie.set
    /\ cookie = resp.sent

CasLogoutText == <<"http", ":", "/", "/", "example", "/", "cas", "/", "logout">>

\* C17: logout from the Authenticated state clears the local credential and
\* answers with a 303 redirect to the CAS logout endpoint; every later
\* request without a new valid ticket is Anonymous and receives a login
\* challenge.
C17_LogoutThenChallenge ==
    /\ (resp.status # 0 /\ resp.url.path = "/logout"
            /\ ~HasParam(resp.url.query, "ticket")
            /\ identify(resp.sent, now).authenticated) =>
            /\ resp.status = 303
            /\ resp.there = CasLogoutText
            /\ resp.setCookie = SetCookie(NoCookie)
            /\ cookie = NoCookie
            /\ resp.calls = <<>>
    /\ (resp.status # 0 /\ resp.url.path = "/" /\ ~resp.sent.present
            /\ ~\E u \in {JohnSmith, MaryJones} : CasSaidYes(u)) =>
            /\ resp.status = 303
            /\ resp.to = "login"
            /\ resp.user = <<>>
            /\ ~resp.setCookie.set

\* a request without a cookie whose ticket CAS does not accept (an empty
\* answer) is refused with 403, not challenged
C17_Witness ==
    /\ resp.url.path = "/"
    /\ ~resp.sent.present
    /\ resp.calls # <<>>
    /\ resp.cas = CasAnswer("ok", <<>>)
    /\ resp.status = 403

\* C18: on every request, if a non-expired credential exists the request
\* proceeds to policy evaluation and the CAS validation endpoint is not
\* called; ticket validation is entered only when no valid credential
\* exists and a ticket parameter is present.
C18_ValidCredentialSkipsValidation ==
    resp.status # 0 =>
        /\ identify(resp.sent, now).authenticated =>
                /\ resp.calls = <<>>
                /\ resp.url.path = "/" =>
                        IF resp.permits
                        THEN resp.status = 200 /\ resp.user = resp.sent.uid
                        ELSE resp.status \in {303, 403}
        /\ resp.calls # <<>> =>
                /\ ~identify(resp.sent, now).authenticated
                /\ HasParam(resp.url.query, "ticket")

\* a request with a valid credential of one user and a ticket: CAS is
\* called and the credential is replaced by one for another user
C18_Witness ==
    /\ identify(resp.sent, now).authenticated
    /\ resp.sent.uid = JohnSmith
    /\ resp.calls # <<>>
    /\ resp.status = 302
    /\ cookie = remember(MaryJones, now)


(* ======================= properties: remote cache ===================== *)
\* the entry the requested key had when the last query started
EntryBefore == lastq.before[lastq.k]

\* C19: for a single key, a read while the entry's expiry is greater than
\* the time of the read returns the cached value without a call of the
\* fetch and changes nothing; any other read calls the fetch exactly once,
\* returns what it fetched and replaces the entry by one that expires at
\* the time of the read plus the ttl of the new fetch
C19_SingleKeyTtl ==
    /\ lastq.op # "none" =>
         IF EntryBefore.present /\ lastq.t < EntryBefore.expire
         THEN /\ lastq.op = "hit"
              /\ lastq.calls = 0
              /\ lastq.v = EntryBefore.v
              /\ cache = lastq.before
         ELSE /\ lastq.op = "miss"
              /\ lastq.calls = 1
              /\ lastq.v = Value(lastq.k, lastq.t)
              /\ cache[lastq.k] = Entry(lastq.t + lastq.ttl, lastq.v)
    /\ \A k \in Keys :
         cache[k].present =>
            /\ cache[k].v.for = k
            /\ cache[k].expire - cache[k].v.at \in Ttls

\* a read at the very instant the entry of the key expires, which fetches
C19_Witness ==
    /\ lastq.op = "miss"
    /\ EntryBefore.present
    /\ lastq.t = EntryBefore.expire
    /\ cache[lastq.k] = Entry(lastq.t + lastq.ttl, Value(lastq.k, lastq.t))

\* C20: over any keys, a miss on key k stores what it fetched under k
\* itself and leaves the unexpired entries of the other keys as they were,
\* and a hit on a key returns a value that was fetched for that key
C20_MissStoresUnderRequestedKey ==
    /\ lastq.op = "miss" =>
         /\ cache[lastq.k] = Entry(lastq.t + lastq.ttl, lastq.v)
         /\ \A x \in Keys \ {lastq.k} :
              (lastq.before[x].present /\ lastq.before[x].expire > lastq.t)
                 => cache[x] = lastq.before[x]
    /\ lastq.op = "hit" => lastq.v.for = lastq.k

\* a hit on one key that returns the value fetched for another key
C20_Witness ==
    /\ lastq.op = "hit"
    /\ lastq.v.for # lastq.k
    /\ lastq.v.for \in Keys

\* C21: a miss removes every entry (of a key other than the requested one)
\* whose expiry was at or before the time of the miss and leaves every
\* unexpired entry of another key present with the same expiry and value;
\* a hit changes nothing in the cache
C21_MissSweepsExpiredOnly ==
    /\ lastq.op = "miss" =>
         \A x \in Keys \ {lastq.k} :
            /\ (lastq.before[x].present /\ lastq.before[x].expire <= lastq.t)
                 => ~cache[x].present
            /\ (lastq.before[x].present /\ lastq.before[x].expire > lastq.t)
                 => cache[x] = lastq.before[x]
    /\ lastq.op = "hit" => cache = lastq.before

\* a miss after which an entry that had expired is present again, under
\* its old key, with the value fetched for the requested key
C21_Witness ==
    /\ lastq.op = "miss"
    /\ \E x \in Keys \ {lastq.k} :
          /\ lastq.before[x].present
          /\ lastq.before[x].expire <= lastq.t
          /\ cache[x] = Entry(lastq.t + lastq.ttl, Value(lastq.k, lastq.t))

(* ===================== properties: cache under threads ================ *)
\* C22: with several threads inside _query, no call raises an error out of
\* the pruning loop and no step removes an entry that has not expired
\* (an entry stored by one thread is not lost to another)
C22_QueriesSerialized ==
    /\ [](\A w \in Workers : wk[w].err = "none")
    /\ [][\A x \in Keys :
            (cache[x].present /\ cache[x].expire > tnow) => cache'[x].present]_vars

\* a thread whose del found the key already deleted by another thread
C22_Witness ==
    \E w \in Workers :
       /\ wk[w].pc = "done"
       /\ wk[w].err = "KeyError"
       /\ ~cache[wk[w].k].present

(* ===================== properties: the login flow ===================== *)
\* the user id in the answer of the CAS service
CasUser(cas) == strip(split(cas.body, LF)[2])

\* C26: a client that starts without a valid credential, follows the
\* redirects and presents a ticket that CAS accepts reaches the protected
\* view; the view runs right after the redirect of the validation, for the
\* user CAS named, and one ticket is all the flow sends to CAS
C26_TicketFlowReachesView ==
    /\ <>(resp.status = 200)
    /\ [][resp'.status = 200 =>
            /\ resp.status = 302
            /\ resp'.user = CasUser(resp.cas)
            /\ ~HasParam(resp'.url.query, "ticket")]_vars
    /\ [](Cardinality(submitted) <= 1)

\* the view has run for john.smith after a validated ticket
C26_Witness ==
    /\ resp.status = 200
    /\ resp.user = JohnSmith
    /\ resp.sent = cookie
    /\ cookie.uid = JohnSmith
    /\ Cardinality(submitted) = 1

(* =================== properties: the validation redirect ============== *)
\* the response that follows a successful ticket validation: CAS accepted
\* the ticket and the validator set the credential
ValidatedRedirect ==
    /\ \E u \in {JohnSmith, MaryJones} : CasSaidYes(u)
    /\ resp.to = "app"
    /\ resp.setCookie.set

\* C27: the redirect issued after a successful ticket validation has HTTP
\* status 303
C27_ValidationRedirectIs303 == ValidatedRedirect => resp.status = 303

\* the redirect after a successful validation goes out as 302 Found
C27_Witness ==
    /\ ValidatedRedirect
    /\ resp.status = 302
    /\ resp.there = url_str(path_url(resp.url))

(* ========================= properties: startup ======================== *)
\* C28: a Validator exists only with a secret that is neither missing nor
\* empty; with such a secret construction raises, and no request is ever
\* handled without a constructed Validator
C28_NoValidatorWithoutSecret ==
    /\ guard.made => (~guard.secret.isNone /\ guard.secret.s # EmptyStr)
    /\ (guard # NoGuard /\ (guard.secret.isNone \/ guard.secret.s = EmptyStr))
          => (~guard.made /\ guard.exc = "AssertionError")
    /\ (resp.status # 0 \/ submitted # {} \/ cookie # NoCookie)
          => (guard.made /\ guard.secret.s # EmptyStr)

\* construction with the empty string as secret has failed
C28_Witness ==
    /\ guard.secret = PyStr(EmptyStr)
    /\ ~guard.made
    /\ guard.exc = "AssertionError"
    /\ resp = NoResp

(* ==================== properties: request-local state ================= *)
\* every other request keeps its capability as it was
OthersKept ==
    \A r \in Requests \ {last'.req} : caps'[r] = caps[r]

\* C29: issue() puts a new capability without sponsor result into its
\* request and touches no other request's capability; sponsor() on one
\* capability touches no other; sponsor() of an Affiliate capability that
\* holds no result queries the records and is decided by the records as they
\* are in that call, whatever other capabilities of the same user have kept
C29_CapabilitiesRequestLocal ==
    /\ [](last.op = "issue" => ~caps[last.req].memo)
    /\ [][last'.op \in {"issue", "sponsor"} => OthersKept]_vars
    /\ []((/\ last.op = "sponsor"
            /\ last.kind = "Affiliate"
            /\ ~last.memo0)
            => /\ last.log[1].queried
               /\ last.log[1].ok <=>
                    sponsored(last.rd, OversightProjectId, last.cn, CallIso))

\* a user sponsored in one request is found not sponsored in another
\* request, whose records no longer hold the approval, while the first
\* capability still holds its result
C29_Witness ==
    /\ last.op = "sponsor"
    /\ last.kind = "Affiliate"
    /\ last.result = "NotSponsored"
    /\ last.log[1].queried
    /\ \E r \in Requests \ {last.req} :
          /\ caps[r].kind = "Affiliate"
          /\ caps[r].req_badge.cn = last.cn
          /\ caps[r].memo

(* ======================== properties: directory ======================= *)
\* C30: affiliate(name) returns an identity iff the search yields exactly
\* one match, and then the identity of that match; no match raises
\* KeyError and two or more matches raise ValueError
C30_UniqueResolution ==
    found.op = "affiliate" =>
       /\ found.result = "AccountHolder" <=> Len(found.matches) = 1
       /\ found.result = "AccountHolder" => found.who = found.matches[1].dn
       /\ Len(found.matches) = 0 => found.result = "KeyError"
       /\ Len(found.matches) >= 2 => found.result = "ValueError"

\* exactly one match, an entry without mail: KeyError, as for no match
C30_Witness ==
    /\ found.op = "affiliate"
    /\ Len(found.matches) = 1
    /\ "mail" \notin found.matches[1].has
    /\ found.result = "KeyError"

(* =================== properties: validation calls ===================== *)
\* the ticket the last request carried in its query string, None when it
\* carried none
TicketCarried == GET_get(resp.url.query, "ticket")

\* C31: a request that carries a non-empty ticket makes exactly one call of
\* the CAS validation endpoint, for that ticket, whether CAS accepts,
\* rejects, answers with a malformed body or the call fails; a request
\* with no ticket or an empty one makes none
C31_OneValidationCallPerTicket ==
    resp.status # 0 =>
        IF TicketCarried.isNone \/ TicketCarried.s = ""
        THEN resp.calls = <<>>
        ELSE /\ Len(resp.calls) = 1
             /\ resp.calls[1].ticket = TicketCarried.s

\* the call failed with an I/O error and was made once
C31_Witness ==
    /\ resp.status = 500
    /\ resp.exc = "IOError"
    /\ resp.cas.io = "IOError"
    /\ Len(resp.calls) = 1
    /\ resp.calls[1].ticket = "ST-1"

(* ===================== properties: the service URL ==================== *)
\* the service parameter of the CAS login address of a challenge, as sent
LoginService(there) == SubSeq(there, Len(CasLoginText) + 1, Len(there))

\* C32: when the client comes back from the CAS login with a ticket, the
\* service URL the application sends to the CAS validation endpoint is the
\* service URL it sent to the CAS login endpoint in the challenge, for
\* every original URL, with or without a query string
C32_SameServiceAtLoginAndValidation ==
    [][(resp.status = 303 /\ resp.to = "login" /\ resp'.calls # <<>>) =>
            quote_plus(url_str(resp'.calls[1].service))
                = LoginService(resp.there)]_vars

\* the original URL had a query string: the validation call names the URL
\* without it, while the login was asked for the URL with it
C32_Witness ==
    /\ resp.calls # <<>>
    /\ resp.url = Url("/", <<Param("q", "x"), Param("ticket", "ST-1")>>)
    /\ resp.calls[1].service = Url("/", <<>>)
    /\ resp.calls[1].ticket = "ST-1"

(* ================= properties: reviewed, not approved ================= *)
\* the institutions that answered NO on a record of the oversight project
RejectingInstitutions(rd, rec) ==
    {org \in Orgs :
        Row(OversightProjectId, rec, ApproveField(org), NO) \in rd}

\* every institution reviewed the record and not all of them approved it:
\* all rejected, or some approved and some rejected
ReviewedNotApproved(rd, rec) ==
    /\ ApprovingInstitutions(rd, rec) \cup RejectingInstitutions(rd, rec)
            = Orgs
    /\ RejectingInstitutions(rd, rec) # {}

\* C33: a record that all institutions reviewed and not all approved, a
\* unanimous rejection or a mixed review, is never what satisfies
\* sponsor(): no answer of the sponsorship query that counts as approval
\* comes from such a record, and a candidate whom only such records name
\* is NotSponsored
C33_ReviewedNotApprovedNeverSponsors ==
    SponsorQueried =>
        /\ \A a \in sponsor_cdwho(last.rd, OversightProjectId) :
                (a.decision = YES /\ a.candidate = last.cn) =>
                    ~ReviewedNotApproved(last.rd, a.record)
        /\ (\A rec \in RecordsOf(last.rd) :
                NamesCandidate(last.rd, rec, last.cn) =>
                    ReviewedNotApproved(last.rd, rec))
            => last.result = "NotSponsored"

\* all three institutions rejected the record that names the identity, and
\* the record has not expired
C33_Witness ==
    /\ SponsorQueried
    /\ last.result = "NotSponsored"
    /\ NamesCandidate(last.rd, 1, last.cn)
    /\ RejectingInstitutions(last.rd, 1) = Orgs
    /\ Unexpired(last.rd, 1, last.day)

(* ================= properties: the request after issue ================ *)
\* C34: after issue(req), req.user is the capability issued; req.executive
\* is that capability when the id is on the allow-list and None otherwise;
\* req.faculty is that capability when it is a Faculty and None otherwise;
\* at most one of the two is set, so an executive whom the directory
\* classifies as faculty has req.faculty = None
C34_RequestAttributesAfterIssue ==
    last.op = "issue" =>
        /\ caps[last.req] # NoCap
        /\ last.attrs.user = last.req
        /\ last.attrs.executive =
                (IF last.cn \in executives THEN last.req ELSE 0)
        /\ last.attrs.faculty =
                (IF caps[last.req].kind = "Faculty" THEN last.req ELSE 0)
        /\ ~(last.attrs.executive # 0 /\ last.attrs.faculty # 0)
        /\ (last.cn \in executives /\ last.dirFaculty) =>
                last.attrs.faculty = 0

\* an executive whom the directory classifies as faculty
C34_Witness ==
    /\ last.op = "issue"
    /\ last.cn \in executives
    /\ last.dirFaculty
    /\ caps[last.req].kind = "Executive"
    /\ last.attrs = [executive |-> last.req, faculty |-> 0,
                     user |-> last.req]

(* ================ properties: CapabilityStyle.permits ================= *)
\* some auditor that lists the permission audits one of the principals
\* without error
SomeAuditPasses ==
    \E i \in 1..Len(last.auditors), j \in 1..Len(last.principals) :
        /\ permission_in(last.perm, auditor_permissions(last.auditors[i]))
        /\ auditor_audit(last.auditors[i], last.principals[j], last.perm)
                = "ok"

C36_RaisingFetchStoresNothing ==
    /\ [](lastq.op = "raised" =>
            /\ lastq.calls = 1
            /\ lastq.stored = 0
            /\ cache = sweep(lastq.before, lastq.t)
            /\ ~cache[lastq.k].present)
    /\ [][\A k \in Keys :
            ~cache[k].present =>
                IF lastq.op = "none" /\ lastq'.op # "none" /\ lastq'.k = k
                THEN lastq'.calls = 1
                ELSE ~cache'[k].present]_vars

\* the fetch raised while an expired entry for the requested key was in
\* the cache: the entry is gone
C36_Witness ==
    /\ lastq.op = "raised"
    /\ lastq.before[lastq.k].present
    /\ lastq.before[lastq.k].expire <= lastq.t
    /\ ~cache[lastq.k].present

(* ==================== properties: oversight requests ================== *)
\* C37: only a Faculty capability has ensure_oversight_survey, on an
\* Affiliate or Executive the call fails as a missing attribute; a what_for
\* other than SPONSORSHIP or DATA_USE raises TypeError before any directory
\* lookup or survey call; in a survey the team members are user_id_i and
\* name_etc_i, numbered 1..n in the order given
C37_OversightFacultyOnlyValidatedFirst ==
    last.op = "ensure_oversight_survey" =>
        /\ last.kind # "Faculty" =>
                /\ last.result = "AttributeError"
                /\ last.lookups = <<>>
                /\ last.surveys = 0
        /\ (last.kind = "Faculty"
                /\ last.what_for \notin {SPONSORSHIP, DATA_USE}) =>
                /\ last.result = "TypeError"
                /\ last.lookups = <<>>
                /\ last.surveys = 0
        /\ last.result = "survey" =>
                /\ last.kind = "Faculty"
                /\ last.what_for \in {SPONSORSHIP, DATA_USE}
                /\ last.surveys = 1
                /\ last.lookups = last.team
                /\ \A i \in 1..Len(last.team) :
                        /\ Pair(KeyN("user_id", i),
                                Val("uid", last.team[i], "")) \in last.params
                        /\ Pair(KeyN("name_etc", i),
                                Val("name_etc", last.team[i], ""))
                                \in last.params
                /\ \A prm \in last.params :
                        prm.key.numbered => prm.key.n \in 1..Len(last.team)

\* a Faculty asks for a data use survey for a team of two
C37_Witness ==
    /\ last.op = "ensure_oversight_survey"
    /\ last.kind = "Faculty"
    /\ last.what_for = DATA_USE
    /\ last.team = <<SomeOne, BillStudent>>
    /\ last.result = "survey"
    /\ Pair(KeyN("user_id", 2), Val("uid", BillStudent, "")) \in last.params
    /\ Cardinality(last.params) = 8

(* =================== properties: the training records ================= *)
\* C38: put replaces: after a put that succeeded the table holds exactly
\* the records of that put, whatever it held before; the table is dropped,
\* recreated and filled in one transaction, so a put that failed leaves
\* the table as it was; the other tables are unchanged
C38_PutReplacesInOneTransaction ==
    lastput.op # "none" =>
        /\ \A n \in TableNames \ {lastput.name} :
                hsr[n] = lastput.before[n]
        /\ lastput.result = "ok" =>
                hsr[lastput.name] =
                    [exists |-> TRUE, rows |-> lastput.records]
        /\ lastput.result # "ok" =>
                hsr[lastput.name] = lastput.before[lastput.name]

\* the INSERT of a put failed: the records of the put before are gone and
\* the table is empty
C38_Witness ==
    /\ lastput.op = "put"
    /\ lastput.result = "DBAPIError"
    /\ lastput.before[lastput.name].rows # <<>>
    /\ hsr[lastput.name] = [exists |-> TRUE, rows |-> <<>>]
====
